---- MODULE Spec2Model ----
(***************************************************************************)
(* A model of the Mancala rules engine (src/engine.js, class               *)
(* MancalaEngine).  The board is a function 0..13 -> Nat, exactly the      *)
(* 14-slot array of the source; an optional value (an argument that may be *)
(* undefined, a summary field that may be absent) is a sequence of length  *)
(* 0 or 1.                                                                 *)
(***************************************************************************)
EXTENDS Integers, Sequences, FiniteSets, TLC

VARIABLES
    board,          \* this.board: the contents of the engine's own array
    currentPlayer,  \* this.currentPlayer
    gameOver,       \* this.gameOver
    initialBoard,   \* this.initialBoard
    initialPlayer,  \* this.initialPlayer
    moves,          \* successful applyMove calls since construction / reset
    lastCall,       \* the most recent call on the engine and the state it saw
    lastResult,     \* what that call returned (or the error it threw)
    held,           \* the arrays the caller holds (results of getBoard, summary.board)
    sameArray,      \* whether this.board and this.initialBoard are one array
    startedWith,    \* the board and the player the engine was last given
    sim,            \* the second engine the caller holds (a clone), if any
    ui,             \* the front end: input lock, animation, AI timers
    legacy          \* the MancalaGame of script.js: its fields, its makeMove
                    \* calls waiting on their animation, its AI timers

vars == <<board, currentPlayer, gameOver, initialBoard, initialPlayer,
          moves, lastCall, lastResult, held, sameArray, startedWith, sim, ui,
          legacy>>

engineVars == <<board, currentPlayer, gameOver, initialBoard, initialPlayer, moves>>

----------------------------------------------------------------------------
(* Bounds of the exploration *)

\* applyMove calls explored after construction or reset
MaxMoves == 3
\* total number of stones of the exhaustively enumerated small boards
MaxStones == 3
\* stone counts of a single heavy pit: one lap is 13 drops, two laps 26
BigCounts == {13, 14, 26, 27}

\* pit arguments handed to applyMove: every slot, and one index off each end
PitArgs == -1 .. 14

\* what a caller writes into an array it holds
WriteSlots == {0, 13}
WriteValues == {9}

----------------------------------------------------------------------------
(* Constants of the source *)

Slots == 0 .. 13

INITIAL_BOARD ==
    [i \in Slots |-> IF i = 6 \/ i = 13 THEN 0 ELSE 4]

PIT_RANGE ==
    (0 :> [start |-> 0, end |-> 5, store |-> 6]) @@
    (1 :> [start |-> 7, end |-> 12, store |-> 13])

Players == {0, 1}

\* an optional value: absent, or present with value v
None == <<>>
Some(v) == <<v>>
IsSome(o) == Len(o) = 1
Get(o) == o[1]

----------------------------------------------------------------------------
(* Pure helpers of the engine, each over an explicit board b *)

\* a sowing loop that skips no slot
shouldSkipNever(position, player) ==
    FALSE

\* a sowing loop that passes over both stores
shouldSkipBothStores(position, player) ==
    position \in {6, 13}

shouldSkipPosition(position, player) ==
    (player = 0 /\ position = 13) \/ (player = 1 /\ position = 6)

isOwnStore(position, player) ==
    position = PIT_RANGE[player].store

isOwnSide(position, player) ==
    position >= PIT_RANGE[player].start /\ position <= PIT_RANGE[player].end

RECURSIVE sumRange(_, _, _)
sumRange(b, start, end) ==
    IF start > end THEN 0 ELSE b[start] + sumRange(b, start + 1, end)

\* a side test that always reads the pits of side 0
isSideEmptyHumanOnly(b, player) ==
    \A pit \in PIT_RANGE[0].start .. PIT_RANGE[0].end : b[pit] = 0

isSideEmpty(b, player) ==
    \A pit \in PIT_RANGE[player].start .. PIT_RANGE[player].end : b[pit] = 0

\* a getBoard that hands out the engine's own array
getBoardAlias(b) ==
    [loc |-> "engine", arr |-> b]

\* getBoard: Array.from(this.board), a fresh array with the same contents.
\* loc says where the returned reference points: "copy" is a new array whose
\* contents are arr; "engine" would be the engine's own array.
getBoard(b) ==
    [loc |-> "copy", arr |-> b]

\* scores with the two stores exchanged
getScoresSwapped(b) ==
    [human |-> b[13], ai |-> b[6]]

\* getScores()
getScores(b) ==
    [human |-> b[6], ai |-> b[13]]

\* a validity test that forgets the pit must hold a stone
isValidMoveAnyPit(b, over, pitIndex, player) ==
    IF over THEN FALSE
    ELSE IF player \notin DOMAIN PIT_RANGE THEN FALSE
    ELSE /\ pitIndex >= PIT_RANGE[player].start
         /\ pitIndex <= PIT_RANGE[player].end

isValidMove(b, over, pitIndex, player) ==
    IF over THEN FALSE
    ELSE IF player \notin DOMAIN PIT_RANGE THEN FALSE
    ELSE /\ pitIndex >= PIT_RANGE[player].start
         /\ pitIndex <= PIT_RANGE[player].end
         /\ b[pitIndex] > 0

RECURSIVE ValidFrom(_, _, _)
ValidFrom(b, pit, end) ==
    IF pit > end THEN <<>>
    ELSE (IF b[pit] > 0 THEN <<pit>> ELSE <<>>) \o ValidFrom(b, pit + 1, end)

\* every pit of the player's range, whatever it holds
getValidMovesAllPits(b, over, player) ==
    IF over THEN <<>>
    ELSE [k \in 1 .. 6 |-> PIT_RANGE[player].start + k - 1]

getValidMoves(b, over, player) ==
    IF over THEN <<>>
    ELSE ValidFrom(b, PIT_RANGE[player].start, PIT_RANGE[player].end)

\* what a call getValidMoves(player) does: it returns the list, or it throws.
\* For a player that is no key of PIT_RANGE, range is undefined and reading
\* range.start throws a TypeError; the gameOver test comes first.
getValidMovesCalled(b, over, player) ==
    IF over THEN [kind |-> "ok", value |-> <<>>]
    ELSE IF player \notin DOMAIN PIT_RANGE
    THEN [kind |-> "error", error |-> "TypeError"]
    ELSE [kind |-> "ok", value |-> getValidMoves(b, over, player)]

\* the while loop of applyMove (engine.js 94-102)
\* a sowing loop in which passing the opponent's store uses up a stone
RECURSIVE SowSpendsOnSkip(_, _, _, _, _)
SowSpendsOnSkip(b, stones, position, player, sequence) ==
    IF stones > 0
    THEN LET next == (position + 1) % 14 IN
         IF shouldSkipPosition(next, player)
         THEN SowSpendsOnSkip(b, stones - 1, next, player, sequence)
         ELSE SowSpendsOnSkip([b EXCEPT ![next] = @ + 1], stones - 1, next, player,
                              Append(sequence, next))
    ELSE [board |-> b, position |-> position, sequence |-> sequence]

RECURSIVE Sow(_, _, _, _, _)
Sow(b, stones, position, player, sequence) ==
    IF stones > 0
    THEN LET next == (position + 1) % 14 IN
         IF shouldSkipPosition(next, player)
         THEN Sow(b, stones, next, player, sequence)
         ELSE Sow([b EXCEPT ![next] = @ + 1], stones - 1, next, player,
                  Append(sequence, next))
    ELSE [board |-> b, position |-> position, sequence |-> sequence]

\* the shape of tryCapture with one slip in it, named by fault: the store
\* credited one stone short, the captured count subtracted from the opposite
\* pit, the opposite pit left as it is, the empty-opposite test missing,
\* the landing pit's count not tested, or the store debited
CaptureWith(b, position, player, fault) ==
    IF ~isOwnSide(position, player) THEN [board |-> b, capture |-> None]
    ELSE IF fault # "anyCount" /\ b[position] # 1 THEN [board |-> b, capture |-> None]
    ELSE LET opposite == 12 - position
             oppositeStones == b[opposite]
         IN  IF fault # "onEmptyOpposite" /\ oppositeStones = 0
             THEN [board |-> b, capture |-> None]
             ELSE LET store == PIT_RANGE[player].store
                      captured == oppositeStones + 1
                      toStore == IF fault = "losesStone" THEN captured - 1
                                 ELSE IF fault = "debitsStore" THEN 0 - captured
                                 ELSE captured
                      toOpposite == IF fault = "subtracts" THEN oppositeStones - captured
                                    ELSE IF fault = "keepsOpposite" THEN oppositeStones
                                    ELSE 0
                  IN  [board |-> [b EXCEPT ![store] = @ + toStore,
                                           ![position] = 0,
                                           ![opposite] = toOpposite],
                       capture |-> Some([pit |-> position,
                                         opposite |-> opposite,
                                         store |-> store,
                                         captured |-> captured])]

tryCaptureLosesStone(b, position, player) ==
    CaptureWith(b, position, player, "losesStone")

tryCaptureSubtracts(b, position, player) ==
    CaptureWith(b, position, player, "subtracts")

tryCaptureKeepsOpposite(b, position, player) ==
    CaptureWith(b, position, player, "keepsOpposite")

tryCaptureOnEmptyOpposite(b, position, player) ==
    CaptureWith(b, position, player, "onEmptyOpposite")

tryCaptureAnyCount(b, position, player) ==
    CaptureWith(b, position, player, "anyCount")

tryCaptureDebitsStore(b, position, player) ==
    CaptureWith(b, position, player, "debitsStore")

tryCapture(b, position, player) ==
    IF ~isOwnSide(position, player) THEN [board |-> b, capture |-> None]
    ELSE IF b[position] # 1 THEN [board |-> b, capture |-> None]
    ELSE LET opposite == 12 - position
             oppositeStones == b[opposite]
         IN  IF oppositeStones = 0 THEN [board |-> b, capture |-> None]
             ELSE LET store == PIT_RANGE[player].store
                      captured == oppositeStones + 1
                  IN  [board |-> [b EXCEPT ![store] = @ + captured,
                                           ![position] = 0,
                                           ![opposite] = 0],
                       capture |-> Some([pit |-> position,
                                         opposite |-> opposite,
                                         store |-> store,
                                         captured |-> captured])]

\* a sweep that credits both sides' remaining stones to store 6
collectToHumanStore(b) ==
    LET humanRemaining == sumRange(b, 0, 5)
        aiRemaining == sumRange(b, 7, 12)
        b2 == [i \in Slots |-> IF i = 6 THEN b[6] + humanRemaining + aiRemaining
                               ELSE IF i = 13 THEN b[13]
                               ELSE 0]
    IN  [board |-> b2,
         sweep |-> Some([humanRemaining |-> humanRemaining,
                         aiRemaining |-> aiRemaining,
                         board |-> getBoard(b2),
                         scores |-> getScores(b2)])]

\* a sweep that collects side 0 only
collectHumanSideOnly(b) ==
    LET humanRemaining == sumRange(b, 0, 5)
        b2 == [i \in Slots |-> IF i <= 5 THEN 0
                               ELSE IF i = 6 THEN b[6] + humanRemaining
                               ELSE b[i]]
    IN  [board |-> b2,
         sweep |-> Some([humanRemaining |-> humanRemaining,
                         aiRemaining |-> 0,
                         board |-> getBoard(b2),
                         scores |-> getScores(b2)])]

collectRemainingStones(b) ==
    LET humanRemaining == sumRange(b, 0, 5)
        aiRemaining == sumRange(b, 7, 12)
        b1 == IF humanRemaining > 0
              THEN [i \in Slots |-> IF i <= 5 THEN 0
                                    ELSE IF i = 6 THEN b[6] + humanRemaining
                                    ELSE b[i]]
              ELSE b
        b2 == IF aiRemaining > 0
              THEN [i \in Slots |-> IF i >= 7 /\ i <= 12 THEN 0
                                    ELSE IF i = 13 THEN b1[13] + aiRemaining
                                    ELSE b1[i]]
              ELSE b1
    IN  [board |-> b2,
         sweep |-> Some([humanRemaining |-> humanRemaining,
                         aiRemaining |-> aiRemaining,
                         board |-> getBoard(b2),
                         scores |-> getScores(b2)])]

\* a turn rule that forgets the extra turn
turnAfterAlwaysSwitches(player, landedInStore, over) ==
    IF ~over THEN 1 - player ELSE player

\* the turn transition of applyMove (engine.js 119-121)
turnAfter(player, landedInStore, over) ==
    IF ~landedInStore /\ ~over THEN 1 - player ELSE player

\* applyMove on the state (b, cp, over): the error it throws, or the new
\* state together with the MoveSummary it returns
applyMove(b, cp, over, pitIndex) ==
    IF over
    THEN [kind |-> "error",
          message |-> "Cannot make a move after the game has ended",
          board |-> b, currentPlayer |-> cp, gameOver |-> over]
    ELSE IF ~isValidMove(b, over, pitIndex, cp)
    THEN [kind |-> "error", message |-> "Invalid move",
          board |-> b, currentPlayer |-> cp, gameOver |-> over]
    ELSE
    LET player == cp
        stonesPicked == b[pitIndex]
        sown == Sow([b EXCEPT ![pitIndex] = 0], stonesPicked, pitIndex, player, <<>>)
        lastPosition == sown.position
        landedInStore == isOwnStore(lastPosition, player)
        cap == IF ~landedInStore
               THEN tryCapture(sown.board, lastPosition, player)
               ELSE [board |-> sown.board, capture |-> None]
        ended == isSideEmpty(cap.board, 0) \/ isSideEmpty(cap.board, 1)
        swept == IF ended
                 THEN collectRemainingStones(cap.board)
                 ELSE [board |-> cap.board, sweep |-> None]
        over2 == IF ended THEN TRUE ELSE over
        cp2 == turnAfter(player, landedInStore, over2)
    IN  [kind |-> "ok",
         board |-> swept.board,
         currentPlayer |-> cp2,
         gameOver |-> over2,
         summary |-> [player |-> player,
                      pitIndex |-> pitIndex,
                      stonesPicked |-> stonesPicked,
                      sequence |-> sown.sequence,
                      lastPosition |-> lastPosition,
                      landedInStore |-> landedInStore,
                      capture |-> cap.capture,
                      sweep |-> swept.sweep,
                      extraTurn |-> landedInStore,
                      board |-> getBoard(swept.board),
                      currentPlayer |-> cp2,
                      gameOver |-> over2,
                      scores |-> getScores(swept.board)]]

\* a reset that makes this.board the array of this.initialBoard
resetSharesArray(ib, ip, boardArg, playerArg) ==
    LET hasCustomBoard == IsSome(boardArg)
        sourceBoard == IF hasCustomBoard THEN Get(boardArg) ELSE ib
        nextPlayer == IF IsSome(playerArg) THEN Get(playerArg)
                      ELSE IF hasCustomBoard THEN 0
                      ELSE ip
    IN  [initialBoard |-> sourceBoard,
         board |-> sourceBoard,
         currentPlayer |-> nextPlayer,
         initialPlayer |-> nextPlayer,
         gameOver |-> FALSE,
         sameArray |-> TRUE]

\* reset(board, currentPlayer) with optional arguments, on an engine whose
\* fields are ib (initialBoard) and ip (initialPlayer)
reset(ib, ip, boardArg, playerArg) ==
    LET hasCustomBoard == IsSome(boardArg)
        sourceBoard == IF hasCustomBoard THEN Get(boardArg) ELSE ib
        nextPlayer == IF IsSome(playerArg) THEN Get(playerArg)
                      ELSE IF hasCustomBoard THEN 0
                      ELSE ip
    \* this.initialBoard and this.board are two separate Array.from copies
    IN  [initialBoard |-> IF hasCustomBoard THEN Get(boardArg) ELSE ib,
         board |-> sourceBoard,
         currentPlayer |-> nextPlayer,
         initialPlayer |-> nextPlayer,
         gameOver |-> FALSE,
         sameArray |-> FALSE]

\* new MancalaEngine(board, currentPlayer): board optional, player defaulted to 0
constructor(boardArg, playerArg) ==
    LET ib == IF IsSome(boardArg) THEN Get(boardArg) ELSE INITIAL_BOARD
        p == IF IsSome(playerArg) THEN Get(playerArg) ELSE 0
    IN  reset(ib, p, Some(ib), Some(p))

\* the one element of a singleton: Only({F(x) : x \in {e}}) is F(e), with e
\* evaluated once
Only(S) == CHOOSE x \in S : TRUE

\* a clone whose board is the receiver's own array
cloneSharesBoard(b, cp, over) ==
    LET e == constructor(Some(b), Some(cp))
    IN  [board |-> [loc |-> "engine", arr |-> b],
         currentPlayer |-> e.currentPlayer,
         gameOver |-> over,
         initialBoard |-> e.initialBoard,
         initialPlayer |-> e.initialPlayer]

\* clone(): a new engine built from this.board and this.currentPlayer, then
\* given this.gameOver.  The new engine's board is a reference, as getBoard's
\* result is: the constructor copies the array it is handed.
clone(b, cp, over) ==
    LET e == constructor(Some(b), Some(cp))
    IN  [board |-> [loc |-> "copy", arr |-> e.board],
         currentPlayer |-> e.currentPlayer,
         gameOver |-> over,
         initialBoard |-> e.initialBoard,
         initialPlayer |-> e.initialPlayer]

\* simulateMove(pitIndex): applyMove on a clone.  engine is the clone after
\* the move, result what applyMove returned (or threw), receiver the
\* receiver's fields after the call: its board is written to only if the
\* clone's board is the receiver's array.
simulateMove(b, cp, over, pitIndex) ==
    LET c == clone(b, cp, over)
    IN  Only({[kind |-> r.kind,
               engine |-> [c EXCEPT !.board.arr = r.board,
                                    !.currentPlayer = r.currentPlayer,
                                    !.gameOver = r.gameOver],
               result |-> r,
               receiver |-> [board |-> IF c.board.loc = "engine" THEN r.board ELSE b,
                             currentPlayer |-> cp,
                             gameOver |-> over]] :
              r \in {applyMove(c.board.arr, c.currentPlayer, c.gameOver, pitIndex)}})

----------------------------------------------------------------------------
(* The move evaluator of the engine-backed front end (class MancalaGame).  *)
(* A score is kept in fifths, so that "score -= worstOpponent * 0.6" stays *)
(* in the integers: the operators below return 5 times the source's score, *)
(* computed exactly (the rounding of the source's doubles is not           *)
(* modelled).  -Infinity is the absent value None.                         *)

HUMAN_PLAYER == 0
AI_PLAYER == 1

\* score > bestScore, oppScore > worstOpponent
betterOrEqual(score, best) == ~IsSome(best) \/ score >= Get(best)

\* a comparison that keeps the lower score
betterIsLower(score, best) == ~IsSome(best) \/ score < Get(best)

better(score, best) == ~IsSome(best) \/ score > Get(best)

\* move points whose capture bonus ignores the number of stones captured
MovePointsFlatCapture(result, own, opp, extraTurnPoints, perStone) ==
    (own - opp) * 6
    + (IF result.extraTurn THEN extraTurnPoints ELSE 0)
    + (IF IsSome(result.capture) THEN 15 ELSE 0)

\* the points of one simulated move for the side whose store is own:
\* store difference times 6, extraTurn points, 15 + captured * perStone
MovePoints(result, own, opp, extraTurnPoints, perStone) ==
    (own - opp) * 6
    + (IF result.extraTurn THEN extraTurnPoints ELSE 0)
    + (IF IsSome(result.capture)
       THEN 15 + Get(result.capture).captured * perStone
       ELSE 0)

\* the for loop over opponentMoves: worst is worstOpponent so far, simB the
\* contents of the simulated engine's board, which a reply writes to only
\* through an array shared with the engine it is simulated on.  The first
\* definition of evaluateMove simulates each reply on a clone whose
\* currentPlayer is set to the opponent, the second definition on the
\* simulated engine itself.
RECURSIVE Replies(_, _, _, _, _, _, _, _)
Replies(simB, simCp, simOver, player, opponentMoves, k, worst, second) ==
    IF k > Len(opponentMoves)
    THEN [kind |-> "ok", worst |-> worst, board |-> simB, replies |-> k - 1]
    ELSE LET oppPit == opponentMoves[k]
             opponent == IF player = HUMAN_PLAYER THEN AI_PLAYER ELSE HUMAN_PLAYER
             opponentPerspective == clone(simB, simCp, simOver)
             After(sm) == IF second \/ opponentPerspective.board.loc = "engine"
                          THEN sm.receiver.board
                          ELSE simB
             OppScore(oppResult) ==
                 LET own == IF player = HUMAN_PLAYER THEN oppResult.scores.human
                            ELSE oppResult.scores.ai
                     opp == IF player = HUMAN_PLAYER THEN oppResult.scores.ai
                            ELSE oppResult.scores.human
                 IN  MovePoints(oppResult, opp, own, 35, 2)
                     + (IF oppResult.gameOver THEN (opp - own) * 15 ELSE 0)
         IN  Only({IF sm.kind = "error"
                   THEN [kind |-> "error", worst |-> worst, board |-> After(sm),
                         replies |-> k]
                   ELSE Only({Replies(After(sm), simCp, simOver, player,
                                      opponentMoves, k + 1,
                                      IF better(oppScore, worst) THEN Some(oppScore)
                                      ELSE worst,
                                      second) :
                              oppScore \in {OppScore(sm.result.summary)}}) :
                   sm \in {IF second
                           THEN simulateMove(simB, simCp, simOver, oppPit)
                           ELSE simulateMove(opponentPerspective.board.arr, opponent,
                                             opponentPerspective.gameOver, oppPit)}})

\* evaluateMove once this.engine.simulateMove(pitIndex) has returned sm;
\* branch names the return statement reached, replies counts the opponent
\* replies it simulated
Scored(b, cp, over, player, sm, second) ==
    LET simulatedEngine == sm.engine
        result == sm.result.summary
        own == IF player = HUMAN_PLAYER THEN result.scores.human
               ELSE result.scores.ai
        opp == IF player = HUMAN_PLAYER THEN result.scores.ai
               ELSE result.scores.human
        score == MovePoints(result, own, opp, 40, 3)
        opponent == IF player = HUMAN_PLAYER THEN AI_PLAYER ELSE HUMAN_PLAYER
        opponentMoves == getValidMoves(simulatedEngine.board.arr,
                                       simulatedEngine.gameOver, opponent)
    IN  IF result.gameOver
        THEN [kind |-> "ok", score |-> 5 * (score + (own - opp) * 20),
              receiver |-> sm.receiver, branch |-> "gameOver", replies |-> 0]
        ELSE IF ~second /\ result.extraTurn
        THEN [kind |-> "ok", score |-> 5 * score, receiver |-> sm.receiver,
              branch |-> "extraTurn", replies |-> 0]
        ELSE IF Len(opponentMoves) = 0
        THEN [kind |-> "ok", score |-> 5 * (score + 10), receiver |-> sm.receiver,
              branch |-> "noReply", replies |-> 0]
        ELSE Only({[kind |-> replies.kind,
                    branch |-> "lookahead",
                    replies |-> replies.replies,
                    score |-> IF replies.kind = "ok"
                              THEN 5 * score - 3 * Get(replies.worst)
                              ELSE 0,
                    receiver |-> [board |-> IF simulatedEngine.board.loc = "engine"
                                            THEN replies.board
                                            ELSE b,
                                  currentPlayer |-> cp,
                                  gameOver |-> over]] :
                   replies \in {Replies(simulatedEngine.board.arr,
                                        simulatedEngine.currentPlayer,
                                        simulatedEngine.gameOver,
                                        player, opponentMoves, 1, None, second)}})

\* evaluateMove(player, pitIndex) on the live engine (b, cp, over); second
\* tells the second definition of the source from the first.  receiver is
\* the live engine after the call.
Evaluate(b, cp, over, player, pitIndex, second) ==
    Only({IF sm.kind = "error"
          THEN [kind |-> "error", score |-> 0, receiver |-> sm.receiver,
                branch |-> "none", replies |-> 0]
          ELSE Scored(b, cp, over, player, sm, second) :
          sm \in {simulateMove(b, cp, over, pitIndex)}})

\* evaluateMove, first definition
evaluateMove(b, cp, over, player, pitIndex) ==
    Evaluate(b, cp, over, player, pitIndex, FALSE)

\* evaluateMove, second definition
evaluateMoveSecond(b, cp, over, player, pitIndex) ==
    Evaluate(b, cp, over, player, pitIndex, TRUE)

\* the for loop over candidateMoves of chooseBestAIMove and of showHint;
\* b is the live engine's board, which an evaluation may leave changed
\* calls lists the evaluateMove(player, pit) invocations made so far, each
\* with the live engine it was made on
RECURSIVE BestOf(_, _, _, _, _, _, _, _, _)
BestOf(b, cp, over, player, candidateMoves, k, bestMove, bestScore, calls) ==
    IF k > Len(candidateMoves)
    THEN [kind |-> "ok", pit |-> bestMove, calls |-> calls,
          receiver |-> [board |-> b, currentPlayer |-> cp, gameOver |-> over]]
    ELSE LET pit == candidateMoves[k]
             called == Append(calls, [player |-> player, pitIndex |-> pit,
                                      board |-> b, currentPlayer |-> cp,
                                      gameOver |-> over])
         IN  Only({IF e.kind = "error"
                   THEN [kind |-> "error", pit |-> bestMove, calls |-> called,
                         receiver |-> e.receiver]
                   ELSE IF better(e.score, bestScore)
                   THEN BestOf(e.receiver.board, cp, over, player, candidateMoves,
                               k + 1, pit, Some(e.score), called)
                   ELSE BestOf(e.receiver.board, cp, over, player, candidateMoves,
                               k + 1, bestMove, bestScore, called) :
                   e \in {evaluateMove(b, cp, over, player, pit)}})

\* the selection shared by chooseBestAIMove and showHint: null without
\* candidates, otherwise the loop started at candidateMoves[0], -Infinity
Select(b, cp, over, player, candidateMoves) ==
    IF Len(candidateMoves) = 0
    THEN [kind |-> "null", pit |-> -1, calls |-> <<>>,
          receiver |-> [board |-> b, currentPlayer |-> cp, gameOver |-> over]]
    ELSE BestOf(b, cp, over, player, candidateMoves, 1, candidateMoves[1], None, <<>>)

\* a chooseBestAIMove that lists the human's pits
chooseBestAIMoveOfHumanPits(b, cp, over) ==
    Select(b, cp, over, AI_PLAYER, getValidMoves(b, over, HUMAN_PLAYER))

\* chooseBestAIMove()
chooseBestAIMove(b, cp, over) ==
    Select(b, cp, over, AI_PLAYER, getValidMoves(b, over, AI_PLAYER))

\* showHint(): refused when the game is over, when it is not the human's
\* turn or when the input is locked; otherwise the pit it highlights
showHint(b, cp, over, inputLocked) ==
    IF over \/ cp # HUMAN_PLAYER \/ inputLocked
    THEN [kind |-> "refused", pit |-> -1, calls |-> <<>>,
          receiver |-> [board |-> b, currentPlayer |-> cp, gameOver |-> over]]
    ELSE Select(b, cp, over, HUMAN_PLAYER, getValidMoves(b, over, HUMAN_PLAYER))

----------------------------------------------------------------------------
(* The boards an engine is constructed with *)

\* all rows of k pits holding at most n stones together
RECURSIVE SmallRows(_, _)
SmallRows(k, n) ==
    IF k = 0 THEN {<<>>}
    ELSE UNION {{<<v>> \o s : s \in SmallRows(k - 1, n - v)} : v \in 0 .. n}

\* the board whose 12 pits are the row s and whose stores are empty
BoardOf(s) ==
    [i \in Slots |-> IF i <= 5 THEN s[i + 1]
                     ELSE IF i = 6 \/ i = 13 THEN 0
                     ELSE s[i]]

SmallBoards == {BoardOf(s) : s \in SmallRows(12, MaxStones)}

PitSlots == (0 .. 5) \cup (7 .. 12)

\* one heavy pit on an otherwise empty board
BigBoards ==
    {[i \in Slots |-> IF i = p THEN c ELSE 0] : p \in PitSlots, c \in BigCounts}

\* the boards with at most one stone
TinyBoards == {BoardOf(s) : s \in SmallRows(12, 1)}

\* the boards with one stone on each side
PairBoards ==
    {b \in {BoardOf(s) : s \in SmallRows(12, 2)} :
        sumRange(b, 0, 5) = 1 /\ sumRange(b, 7, 12) = 1}

FromTuple(t) == [i \in Slots |-> t[i + 1]]

\* the boards of src/engine.test.js
CaptureTestBoard == FromTuple(<<0, 0, 0, 1, 0, 0, 0, 4, 3, 4, 4, 4, 4, 0>>)
SkipTestBoard == FromTuple(<<10, 0, 0, 0, 0, 0, 0, 4, 4, 4, 4, 4, 4, 0>>)
SweepTestBoard == FromTuple(<<0, 0, 0, 0, 0, 1, 20, 0, 0, 0, 0, 0, 5, 15>>)

TestBoards == {INITIAL_BOARD, CaptureTestBoard, SkipTestBoard, SweepTestBoard}

InitBoards == SmallBoards \cup BigBoards \cup TestBoards

BoardArgs(S) == {None} \cup {Some(b) : b \in S}
PlayerArgs == {None, Some(0), Some(1)}

NoCall == [op |-> "none"]
NoResult == [kind |-> "none"]

\* the front end after its constructor: input unlocked, no animation, no AI
\* timer; pending is the move whose animation performMove awaits, delays the
\* delays that animation still waits for, aiMoves the moves the AI has made
\* since the human's last one
UiInit ==
    [inputLocked |-> FALSE,
     animationInProgress |-> FALSE,
     pending |-> None,
     delays |-> 0,
     timers |-> 0,
     aiMoves |-> 0,
     modal |-> FALSE,
     asked |-> <<>>]

\* the MancalaGame of script.js after its constructor; running lists its
\* makeMove calls that wait on their animation, started counts the moves
\* sown, last tells the last step taken
LegacyOn(b, player) ==
    [board |-> b,
     currentPlayer |-> player,
     gameOver |-> FALSE,
     animationInProgress |-> FALSE,
     running |-> <<>>,
     timers |-> 0,
     started |-> 0,
     last |-> [op |-> "none"]]

LegacyNew == LegacyOn(INITIAL_BOARD, 0)

PreState == [board |-> board, currentPlayer |-> currentPlayer, gameOver |-> gameOver]

EngineConstructed(boardArg, playerArg) ==
    LET e == constructor(boardArg, playerArg) IN
    /\ board = e.board
    /\ currentPlayer = e.currentPlayer
    /\ gameOver = e.gameOver
    /\ initialBoard = e.initialBoard
    /\ initialPlayer = e.initialPlayer
    /\ moves = 0
    /\ lastCall = NoCall
    /\ lastResult = NoResult
    /\ held = <<>>
    /\ ui = UiInit
    /\ sameArray = e.sameArray
    /\ startedWith = [board |-> IF IsSome(boardArg) THEN Get(boardArg)
                                ELSE INITIAL_BOARD,
                      player |-> IF IsSome(playerArg) THEN Get(playerArg) ELSE 0]
    /\ sim = None

Constructed(boardArg, playerArg) ==
    /\ EngineConstructed(boardArg, playerArg)
    /\ legacy = LegacyNew

Init ==
    \E boardArg \in BoardArgs(InitBoards), playerArg \in PlayerArgs :
        Constructed(boardArg, playerArg)

\* the engines the calls that throw, and the caller's arrays, are explored from
InitTests ==
    \E boardArg \in BoardArgs(TestBoards \cup TinyBoards), playerArg \in PlayerArgs :
        Constructed(boardArg, playerArg)

----------------------------------------------------------------------------
(* The calls on the engine *)

\* applyMove(pitIndex) returns a MoveSummary
ApplyMoveReturns(pitIndex) ==
    LET r == applyMove(board, currentPlayer, gameOver, pitIndex) IN
    /\ moves < MaxMoves
    /\ r.kind = "ok"
    /\ board' = r.board
    /\ currentPlayer' = r.currentPlayer
    /\ gameOver' = r.gameOver
    /\ moves' = moves + 1
    /\ lastCall' = [op |-> "applyMove", pitIndex |-> pitIndex, pre |-> PreState]
    /\ lastResult' = r
    /\ initialBoard' = IF sameArray THEN r.board ELSE initialBoard
    /\ UNCHANGED <<initialPlayer, held, sameArray, startedWith, sim>>
    /\ UNCHANGED <<ui, legacy>>

\* applyMove(pitIndex) throws: whatever the call did to the engine before
\* throwing stays done
ApplyMoveThrows(pitIndex) ==
    LET r == applyMove(board, currentPlayer, gameOver, pitIndex) IN
    /\ r.kind = "error"
    /\ board' = r.board
    /\ currentPlayer' = r.currentPlayer
    /\ gameOver' = r.gameOver
    /\ lastCall' = [op |-> "applyMove", pitIndex |-> pitIndex, pre |-> PreState]
    /\ lastResult' = r
    /\ UNCHANGED <<initialBoard, initialPlayer, moves, held,
                   sameArray, startedWith, sim>>
    /\ UNCHANGED <<ui, legacy>>

ResetBoards == {INITIAL_BOARD, CaptureTestBoard}

\* reset gives the engine a new board array: a second engine that held the
\* old array keeps it, with the contents it had
Detached(held2) ==
    IF IsSome(held2) /\ Get(held2).board.loc = "engine"
    THEN Some([Get(held2) EXCEPT !.board = [loc |-> "copy", arr |-> board]])
    ELSE held2

\* what reset(board, currentPlayer) does to the engine and to those holding
\* its arrays
ResetEngine(boardArg, playerArg) ==
    LET e == reset(initialBoard, initialPlayer, boardArg, playerArg) IN
    /\ board' = e.board
    /\ currentPlayer' = e.currentPlayer
    /\ gameOver' = e.gameOver
    /\ initialBoard' = e.initialBoard
    /\ initialPlayer' = e.initialPlayer
    /\ lastCall' = [op |-> "reset", boardArg |-> boardArg, playerArg |-> playerArg,
                    played |-> moves]
    /\ lastResult' = NoResult
    /\ sameArray' = e.sameArray
    /\ startedWith' =
           [board |-> IF IsSome(boardArg) THEN Get(boardArg) ELSE startedWith.board,
            player |-> IF IsSome(playerArg) THEN Get(playerArg)
                       ELSE IF IsSome(boardArg) THEN 0
                       ELSE startedWith.player]
    /\ sim' = Detached(sim)
    /\ UNCHANGED held

\* reset(board, currentPlayer); it returns nothing
Reset(boardArg, playerArg) ==
    /\ ResetEngine(boardArg, playerArg)
    /\ moves' = 0
    /\ UNCHANGED <<ui, legacy>>

----------------------------------------------------------------------------
(* The caller's side: the arrays it was handed, and what it does to them *)

\* the contents of the array a reference points to
Deref(ref) == IF ref.loc = "engine" THEN board ELSE ref.arr

\* the caller keeps the two arrays it was handed last, the newest first;
\* at is the number of moves played when the array was handed out
Hold(ref) ==
    LET all == <<[ref |-> ref, at |-> moves, touched |-> FALSE]>> \o held
    IN  IF Len(all) > 2 THEN SubSeq(all, 1, 2) ELSE all

\* const snapshot = engine.getBoard()
GetBoardCall ==
    /\ held' = Hold(getBoard(board))
    /\ lastCall' = [op |-> "getBoard"]
    /\ UNCHANGED <<engineVars, lastResult, sameArray, startedWith, sim>>
    /\ UNCHANGED <<ui, legacy>>

\* const snapshot = summary.board, or summary.sweep.board, of the summary
\* the last applyMove returned
TakeSummaryBoard(field) ==
    /\ lastResult.kind = "ok"
    /\ field = "sweep" => IsSome(lastResult.summary.sweep)
    /\ held' = Hold(IF field = "sweep"
                    THEN Get(lastResult.summary.sweep).board
                    ELSE lastResult.summary.board)
    /\ lastCall' = [op |-> "take", field |-> field]
    /\ UNCHANGED <<engineVars, lastResult, sameArray, startedWith, sim>>
    /\ UNCHANGED <<ui, legacy>>

\* snapshot[slot] = value, on the k-th array the caller holds: the write goes
\* to the array the reference points to
Write(k, slot, value) ==
    /\ k \in DOMAIN held
    /\ IF held[k].ref.loc = "engine"
       THEN /\ board' = [board EXCEPT ![slot] = value]
            /\ held' = [held EXCEPT ![k].touched = TRUE]
       ELSE /\ board' = board
            /\ held' = [held EXCEPT ![k].ref.arr[slot] = value,
                                    ![k].touched = TRUE]
    /\ lastCall' = [op |-> "write", index |-> k, pre |-> PreState,
                    preHeld |-> [j \in DOMAIN held |-> Deref(held[j].ref)]]
    /\ initialBoard' = IF sameArray THEN board' ELSE initialBoard
    /\ UNCHANGED <<currentPlayer, gameOver, initialPlayer,
                   moves, lastResult, sameArray, startedWith, sim>>
    /\ UNCHANGED <<ui, legacy>>

\* what the caller holds of a second engine e: its fields, the calls it has
\* taken, and the board contents its last call left it with
HeldEngine(e, n) ==
    Some([board |-> e.board,
          currentPlayer |-> e.currentPlayer,
          gameOver |-> e.gameOver,
          initialBoard |-> e.initialBoard,
          initialPlayer |-> e.initialPlayer,
          moves |-> n,
          seen |-> e.board.arr])

\* const copy = engine.clone()
CloneCall ==
    /\ sim' = HeldEngine(clone(board, currentPlayer, gameOver), 0)
    /\ lastCall' = [op |-> "clone", pre |-> PreState]
    /\ lastResult' = NoResult
    /\ UNCHANGED <<engineVars, held, sameArray, startedWith>>
    /\ UNCHANGED <<ui, legacy>>

\* const {engine: copy, result} = engine.simulateMove(pitIndex); when the
\* call throws the caller is handed nothing
SimulateMove(pitIndex) ==
    LET sm == simulateMove(board, currentPlayer, gameOver, pitIndex) IN
    /\ board' = sm.receiver.board
    /\ currentPlayer' = sm.receiver.currentPlayer
    /\ gameOver' = sm.receiver.gameOver
    /\ sim' = IF sm.kind = "ok" THEN HeldEngine(sm.engine, 1) ELSE sim
    /\ lastCall' = [op |-> "simulateMove", pre |-> PreState]
    /\ lastResult' = [kind |-> sm.kind]
    /\ initialBoard' = IF sameArray THEN board' ELSE initialBoard
    /\ UNCHANGED <<initialPlayer, moves, held, sameArray, startedWith>>
    /\ UNCHANGED <<ui, legacy>>

\* copy.applyMove(pitIndex), returning or throwing: the move is written to
\* the array the copy's board points to
CloneApplyMove(pitIndex) ==
    /\ IsSome(sim)
    /\ Get(sim).moves < MaxMoves
    /\ LET c == Get(sim)
           r == applyMove(Deref(c.board), c.currentPlayer, c.gameOver, pitIndex)
       IN  /\ sim' = Some([c EXCEPT
                              !.board = IF c.board.loc = "engine" THEN c.board
                                        ELSE [loc |-> "copy", arr |-> r.board],
                              !.currentPlayer = r.currentPlayer,
                              !.gameOver = r.gameOver,
                              !.moves = IF r.kind = "ok" THEN @ + 1 ELSE @,
                              !.seen = r.board])
           /\ board' = IF c.board.loc = "engine" THEN r.board ELSE board
           /\ lastResult' = [kind |-> r.kind]
    /\ lastCall' = [op |-> "copy.applyMove", pre |-> PreState]
    /\ initialBoard' = IF sameArray THEN board' ELSE initialBoard
    /\ UNCHANGED <<currentPlayer, gameOver, initialPlayer, moves, held,
                   sameArray, startedWith>>
    /\ UNCHANGED <<ui, legacy>>

\* copy.reset(): the copy gets a new board array
CloneReset ==
    /\ IsSome(sim)
    /\ LET c == Get(sim)
           e == reset(c.initialBoard, c.initialPlayer, None, None)
       IN  sim' = Some([c EXCEPT !.board = [loc |-> "copy", arr |-> e.board],
                                 !.currentPlayer = e.currentPlayer,
                                 !.gameOver = e.gameOver,
                                 !.initialBoard = e.initialBoard,
                                 !.initialPlayer = e.initialPlayer,
                                 !.moves = 0,
                                 !.seen = e.board])
    /\ lastCall' = [op |-> "copy.reset", pre |-> PreState]
    /\ lastResult' = NoResult
    /\ UNCHANGED <<engineVars, held, sameArray, startedWith>>
    /\ UNCHANGED <<ui, legacy>>

\* The calls of the front end are explored on the engine as construction or
\* an applyMove left it: one call per position.
Settled == lastCall.op \in {"none", "applyMove"}

\* what a call of the front end leaves of the live engine
LiveAfter(receiver) ==
    /\ Settled
    /\ board' = receiver.board
    /\ currentPlayer' = receiver.currentPlayer
    /\ gameOver' = receiver.gameOver
    /\ initialBoard' = IF sameArray THEN receiver.board ELSE initialBoard
    /\ UNCHANGED <<initialPlayer, moves, held, sameArray, startedWith, sim>>
    /\ UNCHANGED <<ui, legacy>>

\* this.evaluateMove(player, pitIndex), first definition, called as the two
\* selection loops call it, on a pit of getValidMoves(player): it returns a
\* score or throws
EvaluateMove(player, pitIndex) ==
    LET e == evaluateMove(board, currentPlayer, gameOver, player, pitIndex) IN
    /\ isValidMove(board, gameOver, pitIndex, player)
    /\ LiveAfter(e.receiver)
    /\ lastCall' = [op |-> "evaluateMove", player |-> player,
                    pitIndex |-> pitIndex, pre |-> PreState]
    /\ lastResult' = [kind |-> e.kind, score |-> e.score,
                      branch |-> e.branch, replies |-> e.replies]

\* this.evaluateMove(player, pitIndex), second definition
EvaluateMoveSecond(player, pitIndex) ==
    LET e == evaluateMoveSecond(board, currentPlayer, gameOver, player, pitIndex) IN
    /\ isValidMove(board, gameOver, pitIndex, player)
    /\ LiveAfter(e.receiver)
    /\ lastCall' = [op |-> "evaluateMoveSecond", player |-> player,
                    pitIndex |-> pitIndex, pre |-> PreState]
    /\ lastResult' = [kind |-> e.kind, score |-> e.score,
                      branch |-> e.branch, replies |-> e.replies]

\* this.chooseBestAIMove()
ChooseBestAIMove ==
    LET c == chooseBestAIMove(board, currentPlayer, gameOver) IN
    /\ LiveAfter(c.receiver)
    /\ lastCall' = [op |-> "chooseBestAIMove", player |-> AI_PLAYER,
                    pre |-> PreState]
    /\ lastResult' = [kind |-> c.kind, pit |-> c.pit]

\* this.showHint(), with the input locked or not
ShowHint(inputLocked) ==
    LET c == showHint(board, currentPlayer, gameOver, inputLocked) IN
    /\ LiveAfter(c.receiver)
    /\ lastCall' = [op |-> "showHint", player |-> HUMAN_PLAYER,
                    pre |-> PreState]
    /\ lastResult' = [kind |-> c.kind, pit |-> c.pit]

Next ==
    \/ \E pitIndex \in PitArgs : ApplyMoveReturns(pitIndex)
    \/ \E boardArg \in BoardArgs(ResetBoards), playerArg \in PlayerArgs :
           Reset(boardArg, playerArg)

Spec == Init /\ [][Next]_vars

NextThrows ==
    \/ \E pitIndex \in PitArgs : ApplyMoveReturns(pitIndex)
    \/ \E pitIndex \in PitArgs : ApplyMoveThrows(pitIndex)

SpecThrows == InitTests /\ [][NextThrows]_vars

NextSnap ==
    \/ \E pitIndex \in PitArgs : ApplyMoveReturns(pitIndex)
    \/ GetBoardCall
    \/ \E field \in {"board", "sweep"} : TakeSummaryBoard(field)
    \/ \E k \in 1 .. 2, slot \in WriteSlots, value \in WriteValues :
           Write(k, slot, value)

\* the engines whose boards the caller takes and writes to
InitSnap ==
    \E b \in {CaptureTestBoard, SweepTestBoard} \cup TinyBoards, p \in Players :
        Constructed(Some(b), Some(p))

SpecSnap == InitSnap /\ [][NextSnap]_vars

NextEval ==
    \/ \E pitIndex \in PitArgs : ApplyMoveReturns(pitIndex)
    \/ \E player \in Players, pitIndex \in PitSlots : EvaluateMove(player, pitIndex)
    \/ ChooseBestAIMove
    \/ \E inputLocked \in BOOLEAN : ShowHint(inputLocked)
    \/ \E player \in Players, pitIndex \in PitSlots :
           EvaluateMoveSecond(player, pitIndex)

\* the engines the front end evaluates moves on
InitEval ==
    \E b \in TestBoards \cup {BoardOf(s) : s \in SmallRows(12, MaxStones - 1)},
       p \in Players :
        Constructed(Some(b), Some(p))

SpecEval == InitEval /\ [][NextEval]_vars

NextClone ==
    \/ \E pitIndex \in PitArgs : ApplyMoveReturns(pitIndex)
    \/ Reset(None, None)
    \/ CloneCall
    \/ \E pitIndex \in PitArgs : SimulateMove(pitIndex)
    \/ \E pitIndex \in PitArgs : CloneApplyMove(pitIndex)
    \/ CloneReset

\* the engines that are cloned
InitClone ==
    \E b \in {SweepTestBoard} \cup TinyBoards \cup PairBoards, p \in Players :
        Constructed(Some(b), Some(p))

SpecClone == InitClone /\ [][NextClone]_vars

\* the player ids a caller passes: none (the default, this.currentPlayer),
\* the two players, and two ids that are no player
PlayerIdArgs == {None, Some(0), Some(1), Some(2), Some(-1)}

PlayerGiven(playerArg) == IF IsSome(playerArg) THEN Get(playerArg) ELSE currentPlayer

\* engine.getValidMoves(player)
GetValidMovesCall(playerArg) ==
    /\ lastCall' = [op |-> "getValidMoves", player |-> playerArg]
    /\ lastResult' = getValidMovesCalled(board, gameOver, PlayerGiven(playerArg))
    /\ UNCHANGED <<engineVars, held, sameArray, startedWith, sim>>
    /\ UNCHANGED <<ui, legacy>>

\* engine.isValidMove(pitIndex, player)
IsValidMoveCall(pitIndex, playerArg) ==
    /\ lastCall' = [op |-> "isValidMove", pitIndex |-> pitIndex, player |-> playerArg]
    /\ lastResult' = [kind |-> "ok",
                      value |-> isValidMove(board, gameOver, pitIndex,
                                            PlayerGiven(playerArg))]
    /\ UNCHANGED <<engineVars, held, sameArray, startedWith, sim>>
    /\ UNCHANGED <<ui, legacy>>

\* engine.getScores()
GetScoresCall ==
    /\ lastCall' = [op |-> "getScores"]
    /\ lastResult' = [kind |-> "ok", value |-> getScores(board)]
    /\ UNCHANGED <<engineVars, held, sameArray, startedWith, sim>>
    /\ UNCHANGED <<ui, legacy>>

NextCalls ==
    \/ \E pitIndex \in PitArgs : ApplyMoveReturns(pitIndex)
    \/ \E playerArg \in PlayerIdArgs : Settled /\ GetValidMovesCall(playerArg)
    \/ \E pitIndex \in PitArgs, playerArg \in PlayerIdArgs :
           Settled /\ IsValidMoveCall(pitIndex, playerArg)
    \/ Settled /\ GetScoresCall
    \/ Settled /\ held = <<>> /\ GetBoardCall
    \/ Settled /\ sim = None /\ CloneCall
    \/ \E boardArg \in BoardArgs({CaptureTestBoard}), playerArg \in PlayerArgs :
           Settled /\ held = <<>> /\ sim = None /\ Reset(boardArg, playerArg)

\* the engines the accessors are called on; each accessor is called once on
\* each position a game reaches; the caller takes one array and one clone,
\* and resets while it holds neither
InitCalls ==
    \E b \in {CaptureTestBoard, SweepTestBoard} \cup TinyBoards, p \in Players :
        Constructed(Some(b), Some(p))

SpecCalls == InitCalls /\ [][NextCalls]_vars

----------------------------------------------------------------------------
(* The front end (MancalaGame, first definition): clicks and key presses,  *)
(* the animation of a move, the AI's timer                                 *)

lockInput(u, locked) ==
    [u EXCEPT !.inputLocked = locked]

\* a scheduleAIMove that sets no timer
scheduleAIMoveSetsNoTimer(u, over) ==
    IF over THEN lockInput(u, FALSE) ELSE lockInput(u, TRUE)

\* scheduleAIMove(delay): over is this.engine.gameOver; the timer set calls
\* makeAIMove
scheduleAIMove(u, over) ==
    IF over THEN lockInput(u, FALSE)
    ELSE [lockInput(u, TRUE) EXCEPT !.timers = @ + 1]

\* handleMoveOutcome(result): cp and over are this.engine.currentPlayer and
\* this.engine.gameOver when it runs; handleGameOver() shows the game-over
\* modal with the scores
handleMoveOutcome(u, result, cp, over) ==
    IF result.gameOver THEN [lockInput(u, TRUE) EXCEPT !.modal = TRUE]
    ELSE IF result.extraTurn
    THEN IF result.player = HUMAN_PLAYER THEN lockInput(u, FALSE)
         ELSE scheduleAIMove(u, over)
    ELSE IF cp = AI_PLAYER THEN scheduleAIMove(u, over)
    ELSE lockInput(u, FALSE)

\* the delays animateMove awaits: one per stone dropped, one before the
\* capture, one before the sweep, one before the final board
AnimationDelays(result) ==
    Len(result.sequence)
    + (IF IsSome(result.capture) THEN 1 ELSE 0)
    + (IF IsSome(result.sweep) THEN 1 ELSE 0)
    + 1

\* the try block of performMove(pitIndex, initiatedByAI) up to its await, and
\* its catch block: the input is locked, the move applied and its animation
\* started, or the error caught; lastCall records the input lock when the
\* event was handled and animationInProgress when applyMove was called
ApplyAndAnimate(u, pitIndex, initiatedByAI) ==
    LET r == applyMove(board, currentPlayer, gameOver, pitIndex) IN
    /\ board' = r.board
    /\ currentPlayer' = r.currentPlayer
    /\ gameOver' = r.gameOver
    /\ moves' = IF r.kind = "ok" THEN moves + 1 ELSE moves
    /\ lastCall' = [op |-> "applyMove", pitIndex |-> pitIndex,
                    pre |-> PreState, initiatedByAI |-> initiatedByAI,
                    inputLocked |-> ui.inputLocked,
                    animationInProgress |-> u.animationInProgress]
    /\ lastResult' = r
    /\ initialBoard' = IF sameArray THEN r.board ELSE initialBoard
    /\ ui' = IF r.kind = "ok"
             THEN [lockInput(u, TRUE) EXCEPT
                      !.animationInProgress = TRUE,
                      !.pending = Some([player |-> r.summary.player,
                                        extraTurn |-> r.summary.extraTurn,
                                        gameOver |-> r.summary.gameOver]),
                      !.delays = AnimationDelays(r.summary)]
             ELSE lockInput(u, FALSE)
    /\ UNCHANGED <<initialPlayer, held, sameArray, startedWith, sim, legacy>>

\* a performMove that does not look at animationInProgress
PerformMoveWhileAnimating(u, pitIndex, initiatedByAI) ==
    ApplyAndAnimate(u, pitIndex, initiatedByAI)

\* performMove(pitIndex, initiatedByAI) up to its await, from the front-end
\* state u: nothing while an animation runs
PerformMove(u, pitIndex, initiatedByAI) ==
    IF u.animationInProgress
    THEN /\ ui' = u
         /\ UNCHANGED <<engineVars, lastCall, lastResult, held, sameArray,
                        startedWith, sim, legacy>>
    ELSE ApplyAndAnimate(u, pitIndex, initiatedByAI)

\* makeMove(pitIndex), by a click on a pit or a key 1-6: a move is performed
\* only when the game is on, the input unlocked, the turn the human's and
\* the pit a valid move; otherwise a message is shown
MakeMove(pitIndex) ==
    /\ moves < MaxMoves
    /\ ~gameOver
    /\ ~ui.inputLocked
    /\ currentPlayer = HUMAN_PLAYER
    /\ isValidMove(board, gameOver, pitIndex, HUMAN_PLAYER)
    /\ PerformMove([ui EXCEPT !.aiMoves = 0, !.asked = <<>>], pitIndex, FALSE)

\* one of the delays of animateMove elapses, another follows
AnimationDelay ==
    /\ IsSome(ui.pending)
    /\ ui.delays > 1
    /\ ui' = [ui EXCEPT !.delays = @ - 1]
    /\ UNCHANGED <<engineVars, lastCall, lastResult, held, sameArray,
                   startedWith, sim, legacy>>

\* the last delay of animateMove elapses: the animation is over, and
\* performMove goes on with handleMoveOutcome(result)
AnimationEnds ==
    /\ IsSome(ui.pending)
    /\ ui.delays = 1
    /\ ui' = handleMoveOutcome([ui EXCEPT !.animationInProgress = FALSE,
                                          !.pending = None,
                                          !.delays = 0],
                               Get(ui.pending), currentPlayer, gameOver)
    /\ UNCHANGED <<engineVars, lastCall, lastResult, held, sameArray,
                   startedWith, sim, legacy>>

\* the timer of scheduleAIMove fires: makeAIMove()
MakeAIMove ==
    /\ ui.timers > 0
    /\ LET u == [ui EXCEPT !.timers = @ - 1] IN
       IF gameOver \/ currentPlayer # AI_PLAYER
       THEN /\ ui' = lockInput(u, gameOver)
            /\ UNCHANGED <<engineVars, lastCall, lastResult, held, sameArray,
                           startedWith, sim, legacy>>
       ELSE \E move \in {chooseBestAIMove(board, currentPlayer, gameOver)} :
                IF move.kind = "ok"
                THEN PerformMove([u EXCEPT !.aiMoves = @ + 1, !.asked = move.calls],
                                 move.pit, TRUE)
                ELSE /\ ui' = [IF move.kind = "null" THEN lockInput(u, FALSE) ELSE u
                                EXCEPT !.asked = move.calls]
                     /\ board' = move.receiver.board
                     /\ initialBoard' = IF sameArray THEN board' ELSE initialBoard
                     /\ UNCHANGED <<currentPlayer, gameOver, initialPlayer, moves,
                                    lastCall, lastResult, held, sameArray,
                                    startedWith, sim, legacy>>

\* newGame(), by the new-game and play-again buttons or the key n, at any
\* time: the engine is reset, the input unlocked and the game-over modal
\* hidden; a running animation and the timers set go on
NewGame ==
    /\ ResetEngine(None, None)
    /\ UNCHANGED <<moves, legacy>>
    /\ ui' = [lockInput(ui, FALSE) EXCEPT !.modal = FALSE, !.asked = <<>>]

\* showHint(), by the hint button or the key h, at any time; asked holds the
\* evaluateMove calls it made
HintPressed ==
    \E c \in {showHint(board, currentPlayer, gameOver, ui.inputLocked)} :
        /\ board' = c.receiver.board
        /\ initialBoard' = IF sameArray THEN board' ELSE initialBoard
        /\ ui' = [ui EXCEPT !.asked = c.calls]
        /\ UNCHANGED <<currentPlayer, gameOver, initialPlayer, moves, lastCall,
                       lastResult, held, sameArray, startedWith, sim, legacy>>

NextPlay ==
    \/ \E pitIndex \in 0 .. 5 : MakeMove(pitIndex)
    \/ AnimationDelay
    \/ AnimationEnds
    \/ MakeAIMove

\* the games the front end plays: the default engine, and engines late in a
\* game, the human to move
InitPlay ==
    \E b \in {INITIAL_BOARD, CaptureTestBoard, SweepTestBoard} \cup PairBoards :
        Constructed(Some(b), Some(HUMAN_PLAYER))

SpecPlay == InitPlay /\ [][NextPlay]_vars

\* a timer that is set fires: weak fairness of MakeAIMove, whose enabling
\* condition is spelled out (with a timer set, makeAIMove always takes a
\* step, which uses the timer up)
TimersFire ==
    <>[](ui.timers > 0) => []<><<MakeAIMove>>_vars

\* delays elapse and timers fire: every setTimeout callback is run
FairPlay ==
    /\ WF_vars(AnimationDelay)
    /\ WF_vars(AnimationEnds)
    /\ TimersFire

SpecPlayFair == SpecPlay /\ FairPlay

\* the front end under every interleaving of its events: pit clicks and keys,
\* new games, hints, the delays of the animation and the AI's timers
NextFront ==
    \/ \E pitIndex \in 0 .. 5 : MakeMove(pitIndex)
    \/ AnimationDelay
    \/ AnimationEnds
    \/ MakeAIMove
    \/ NewGame
    \/ HintPressed

SpecFront == InitPlay /\ [][NextFront]_vars

----------------------------------------------------------------------------
(* The legacy game (MancalaGame of script.js): its rules, its AI and hint, *)
(* and its events                                                          *)

getNextPosition(pos) == (pos + 1) % 14

\* the while loop of makeMove, player being this.currentPlayer: a stone into
\* each position after currentPos but the opponent's store
RECURSIVE Distribute(_, _, _, _, _)
Distribute(b, remainingStones, currentPos, player, distributionPath) ==
    IF remainingStones = 0
    THEN [board |-> b, currentPos |-> currentPos,
          distributionPath |-> distributionPath]
    ELSE LET next == getNextPosition(currentPos) IN
         IF (player = 0 /\ next = 13) \/ (player = 1 /\ next = 6)
         THEN Distribute(b, remainingStones, next, player, distributionPath)
         ELSE Distribute([b EXCEPT ![next] = @ + 1], remainingStones - 1, next,
                         player, Append(distributionPath, next))

\* a checkCapture that takes the last stone although the opposite pit is
\* empty
checkCaptureOfEmptyPit(b, player, lastPosition) ==
    LET isPlayerSide == \/ player = 0 /\ lastPosition <= 5
                        \/ player = 1 /\ lastPosition >= 7 /\ lastPosition <= 12
        oppositePosition == 12 - lastPosition
    IN  IF ~isPlayerSide THEN b
        ELSE LET taken == [b EXCEPT ![lastPosition] = 0, ![oppositePosition] = 0]
             IN  [taken EXCEPT ![IF player = 0 THEN 6 ELSE 13] =
                                   @ + 1 + b[oppositePosition]]

\* checkCapture(lastPosition), player being this.currentPlayer: the board it
\* leaves
checkCapture(b, player, lastPosition) ==
    LET isPlayerSide == \/ player = 0 /\ lastPosition <= 5
                        \/ player = 1 /\ lastPosition >= 7 /\ lastPosition <= 12
        oppositePosition == 12 - lastPosition
    IN  IF ~isPlayerSide THEN b
        ELSE IF b[oppositePosition] > 0
        THEN LET taken == [b EXCEPT ![lastPosition] = 0, ![oppositePosition] = 0]
             IN  [taken EXCEPT ![IF player = 0 THEN 6 ELSE 13] =
                                   @ + 1 + b[oppositePosition]]
        ELSE b

\* checkGameEnd()
checkGameEnd(b) ==
    \/ \A i \in 0 .. 5 : b[i] = 0
    \/ \A i \in 7 .. 12 : b[i] = 0

\* what endGame() does to the board
endGame(b) ==
    [i \in Slots |-> IF i = 6 THEN b[6] + sumRange(b, 0, 5)
                     ELSE IF i = 13 THEN b[13] + sumRange(b, 7, 12)
                     ELSE 0]

\* makeMove(pitIndex) up to its await, on the game g: refused while
\* animationInProgress is set or the game over, nothing for an empty pit;
\* otherwise the stones are sown at once and the call waits on
\* animateStoneDistribution, one delay per stone
makeMoveStarts(g, pitIndex) ==
    IF g.animationInProgress \/ g.gameOver THEN g
    ELSE IF g.board[pitIndex] = 0 THEN [g EXCEPT !.animationInProgress = FALSE]
    ELSE LET d == Distribute([g.board EXCEPT ![pitIndex] = 0], g.board[pitIndex],
                             pitIndex, g.currentPlayer, <<>>)
         IN  [g EXCEPT !.board = d.board,
                       !.animationInProgress = TRUE,
                       !.started = @ + 1,
                       !.running = Append(@, [lastPosition |-> d.currentPos,
                                              delays |-> Len(d.distributionPath),
                                              stale |-> FALSE])]

\* makeMove after its await, on the game g as it is by then: extra turn,
\* capture, game end, the switch of player and the timer of the AI's move
makeMoveResumes(g, lastPosition) ==
    LET player == g.currentPlayer
        extraTurn == \/ player = 0 /\ lastPosition = 6
                     \/ player = 1 /\ lastPosition = 13
        b == IF ~extraTurn /\ g.board[lastPosition] = 1
             THEN checkCapture(g.board, player, lastPosition)
             ELSE g.board
    IN  IF checkGameEnd(b)
        THEN [g EXCEPT !.board = endGame(b),
                       !.gameOver = TRUE,
                       !.animationInProgress = FALSE]
        ELSE IF ~extraTurn
        THEN [g EXCEPT !.board = b,
                       !.currentPlayer = 1 - player,
                       !.timers = IF 1 - player = 1 THEN @ + 1 ELSE @,
                       !.animationInProgress = FALSE]
        ELSE [g EXCEPT !.board = b,
                       !.timers = IF player = 1 THEN @ + 1 ELSE @,
                       !.animationInProgress = FALSE]

\* makeMove(pitIndex) run to its end with no event in between
makeMove(g, pitIndex) ==
    LET s == makeMoveStarts(g, pitIndex) IN
    IF Len(s.running) = Len(g.running) THEN s
    ELSE makeMoveResumes([s EXCEPT !.running = g.running],
                         s.running[Len(s.running)].lastPosition)

\* the loop "Simulate the move" of findBestAIMove and findBestHumanMove: i of
\* the stones are stepped; at the store named the continue goes on to the
\* next stone
RECURSIVE SimulatedPosition(_, _, _, _)
SimulatedPosition(pos, i, stones, skipped) ==
    IF i >= stones THEN pos
    ELSE LET next == getNextPosition(pos) IN
         IF next = skipped
         THEN SimulatedPosition(next, i + 1, stones, skipped)
         ELSE SimulatedPosition(next, i + 1, stones, skipped)

\* the score the two loops give a move of player
MoveScore(b, move, player) ==
    LET stones == b[move]
        pos == SimulatedPosition(move, 0, stones, IF player = 1 THEN 6 ELSE 13)
        ownSide == IF player = 1 THEN pos >= 7 /\ pos <= 12
                   ELSE pos >= 0 /\ pos <= 5
    IN  (IF pos = (IF player = 1 THEN 13 ELSE 6) THEN 100 ELSE 0)
        + (IF ownSide /\ b[pos] = 0 /\ b[12 - pos] > 0 THEN b[12 - pos] * 10 ELSE 0)
        + stones

\* the pits from..to that hold stones, in order
RECURSIVE AvailableMoves(_, _, _)
AvailableMoves(b, from, to) ==
    IF from > to THEN <<>>
    ELSE (IF b[from] > 0 THEN <<from>> ELSE <<>>) \o AvailableMoves(b, from + 1, to)

\* the for loop over availableMoves, from the k-th on
RECURSIVE BestLegacyMove(_, _, _, _, _, _)
BestLegacyMove(b, player, availableMoves, k, bestMove, bestScore) ==
    IF k > Len(availableMoves) THEN bestMove
    ELSE LET score == MoveScore(b, availableMoves[k], player) IN
         IF score > bestScore
         THEN BestLegacyMove(b, player, availableMoves, k + 1, availableMoves[k], score)
         ELSE BestLegacyMove(b, player, availableMoves, k + 1, bestMove, bestScore)

\* findBestAIMove()
findBestAIMove(b) ==
    LET availableMoves == AvailableMoves(b, 7, 12) IN
    IF Len(availableMoves) = 0 THEN -1
    ELSE BestLegacyMove(b, 1, availableMoves, 1, availableMoves[1], -1)

\* findBestHumanMove()
findBestHumanMove(b) ==
    LET availableMoves == AvailableMoves(b, 0, 5) IN
    IF Len(availableMoves) = 0 THEN -1
    ELSE BestLegacyMove(b, 0, availableMoves, 1, availableMoves[1], -1)

\* a step of the legacy game: g is the game it leaves, what tells the step
LegacyStep(g, what) ==
    /\ legacy' = [g EXCEPT !.last = what]
    /\ UNCHANGED <<engineVars, lastCall, lastResult, held, sameArray,
                   startedWith, sim, ui>>

\* a click on a human pit or a key 1-6: both handlers call makeMove only on
\* the human's turn, the game on and no animation flagged; a pit without
\* stones starts nothing
LegacyClick(pitIndex) ==
    /\ legacy.started < MaxMoves
    /\ legacy.currentPlayer = 0
    /\ ~legacy.gameOver
    /\ ~legacy.animationInProgress
    /\ legacy.board[pitIndex] > 0
    /\ LegacyStep(makeMoveStarts(legacy, pitIndex),
                  [op |-> "makeMove", pitIndex |-> pitIndex,
                   running |-> Len(legacy.running)])

\* one of the timers of animateStoneDistribution fires, another follows
LegacyDelay(k) ==
    /\ legacy.running[k].delays > 1
    /\ LegacyStep([legacy EXCEPT !.running[k].delays = @ - 1], legacy.last)

\* the sequence s without its k-th element
WithoutNth(s, k) ==
    SubSeq(s, 1, k - 1) \o SubSeq(s, k + 1, Len(s))

\* the last timer of animateStoneDistribution fires and the k-th waiting
\* makeMove goes on; last tells whether a newGame came after its start and
\* whether it changed the board or the player to move
LegacyResume(k) ==
    /\ legacy.running[k].delays = 1
    /\ \E g \in {makeMoveResumes([legacy EXCEPT !.running = WithoutNth(@, k)],
                                 legacy.running[k].lastPosition)} :
           LegacyStep(g, [op |-> "resume",
                          stale |-> legacy.running[k].stale,
                          changed |-> \/ g.board # legacy.board
                                      \/ g.currentPlayer # legacy.currentPlayer])

\* the timer set by makeMove fires: makeAIMove()
LegacyAIMove ==
    /\ legacy.started < MaxMoves
    /\ legacy.timers > 0
    /\ LET g == [legacy EXCEPT !.timers = @ - 1] IN
       IF g.gameOver \/ g.currentPlayer # 1
       THEN LegacyStep(g, [op |-> "makeAIMove", pitIndex |-> -1,
                           running |-> Len(legacy.running)])
       ELSE \E bestMove \in {findBestAIMove(g.board)} :
                LegacyStep(IF bestMove # -1 THEN makeMoveStarts(g, bestMove)
                           ELSE [g EXCEPT !.currentPlayer = 0],
                           [op |-> "makeAIMove", pitIndex |-> bestMove,
                            running |-> Len(legacy.running)])

\* newGame(), by the button or the key n, at any time: the fields are set
\* anew; the makeMove calls that wait go on waiting
LegacyNewGame ==
    LegacyStep([legacy EXCEPT
                   !.board = INITIAL_BOARD,
                   !.currentPlayer = 0,
                   !.gameOver = FALSE,
                   !.animationInProgress = FALSE,
                   !.running = [k \in 1 .. Len(@) |-> [@[k] EXCEPT !.stale = TRUE]]],
               [op |-> "newGame"])

\* the legacy game under every interleaving of its events
NextLegacy ==
    \/ \E pitIndex \in 0 .. 5 : LegacyClick(pitIndex)
    \/ \E k \in 1 .. Len(legacy.running) : LegacyDelay(k)
    \/ \E k \in 1 .. Len(legacy.running) : LegacyResume(k)
    \/ LegacyAIMove
    \/ LegacyNewGame

SpecLegacy == Constructed(None, None) /\ [][NextLegacy]_vars

\* makeMove(pitIndex) on a pit with stones of the player to move, run to its
\* end; last keeps the game before, the slot of the last stone, and the slot
\* the loop of findBestAIMove or findBestHumanMove computes for the move
LegacyMove(pitIndex) ==
    /\ legacy.started < MaxMoves
    /\ ~legacy.gameOver
    /\ IF legacy.currentPlayer = 0 THEN pitIndex \in 0 .. 5 ELSE pitIndex \in 7 .. 12
    /\ legacy.board[pitIndex] > 0
    /\ LegacyStep(makeMove(legacy, pitIndex),
                  [op |-> "makeMove",
                   pitIndex |-> pitIndex,
                   pre |-> [board |-> legacy.board,
                            currentPlayer |-> legacy.currentPlayer,
                            gameOver |-> legacy.gameOver],
                   lastPosition |->
                       makeMoveStarts(legacy, pitIndex).running[1].lastPosition,
                   simulated |->
                       SimulatedPosition(pitIndex, 0, legacy.board[pitIndex],
                                         IF legacy.currentPlayer = 1 THEN 6 ELSE 13)])

NextRules ==
    \E pitIndex \in PitSlots : LegacyMove(pitIndex)

\* the legacy rules on every board the engine is explored on
InitRules ==
    \E b \in InitBoards, player \in Players :
        /\ EngineConstructed(Some(b), Some(player))
        /\ legacy = LegacyOn(b, player)

SpecRules == InitRules /\ [][NextRules]_vars

----------------------------------------------------------------------------
(* What the properties are stated over: the last applyMove, the state it   *)
(* saw, and the boards the rules prescribe, written from the rules and the *)
(* summary's drop sequence rather than from the engine's helpers.           *)

Moved == lastCall.op = "applyMove" /\ lastResult.kind = "ok"
Threw == lastCall.op = "applyMove" /\ lastResult.kind = "error"

Pre == lastCall.pre
Summary == lastResult.summary
Mover == Pre.currentPlayer
Landing == Summary.lastPosition

OwnStore(p) == IF p = 0 THEN 6 ELSE 13
OppStore(p) == IF p = 0 THEN 13 ELSE 6
OwnPits(p) == IF p = 0 THEN 0 .. 5 ELSE 7 .. 12

Total(b) ==
    b[0] + b[1] + b[2] + b[3] + b[4] + b[5] + b[6] +
    b[7] + b[8] + b[9] + b[10] + b[11] + b[12] + b[13]

PitsTotal(b, p) ==
    IF p = 0 THEN b[0] + b[1] + b[2] + b[3] + b[4] + b[5]
    ELSE b[7] + b[8] + b[9] + b[10] + b[11] + b[12]

SideIsEmpty(b, p) == \A i \in OwnPits(p) : b[i] = 0
AllPitsEmpty(b) == \A i \in PitSlots : b[i] = 0

Count(x, seq) == Cardinality({j \in 1 .. Len(seq) : seq[j] = x})

\* the board right after the last stone was dropped: the played pit emptied,
\* one stone more in a slot for each time the drop sequence names it
Sown ==
    [i \in Slots |-> (IF i = lastCall.pitIndex THEN 0 ELSE Pre.board[i])
                     + Count(i, Summary.sequence)]

\* the last stone landed in a pit of the mover that holds exactly 1 stone
LandedAlone == Landing \in OwnPits(Mover) /\ Sown[Landing] = 1

CaptureDue == LandedAlone /\ Sown[12 - Landing] > 0

\* the board after the capture step
AfterCapture ==
    IF CaptureDue
    THEN [Sown EXCEPT ![OwnStore(Mover)] = @ + Sown[12 - Landing] + 1,
                      ![Landing] = 0,
                      ![12 - Landing] = 0]
    ELSE Sown

SideEmptied(b) == SideIsEmpty(b, 0) \/ SideIsEmpty(b, 1)

----------------------------------------------------------------------------
(* C1: stone conservation.  In every state reached by applyMove calls       *)
(* (captures and the end-of-game sweep included) the 14 slots sum to the    *)
(* sum of the board the engine was constructed or reset with.               *)
StoneConservation ==
    Total(board) = Total(initialBoard)

StoneConservationWitness ==
    /\ Moved
    /\ moves >= 2
    /\ IsSome(Summary.capture)
    /\ IsSome(Summary.sweep)
    /\ Total(board) = Total(initialBoard)

(* C2: non-negativity.  In every reachable state each of the 14 slots holds *)
(* an integer >= 0.                                                         *)
SlotsNonNegative ==
    \A i \in Slots : board[i] \in Int /\ board[i] >= 0

SlotsNonNegativeWitness ==
    /\ Moved
    /\ Summary.stonesPicked >= 13
    /\ IsSome(Summary.capture)
    /\ ~IsSome(Summary.sweep)
    /\ board[Landing] = 0 /\ board[12 - Landing] = 0

(* C3: applyMove(pit) throws exactly when the game is over or pit is not a  *)
(* pit of the current player's range holding a stone; when it throws,       *)
(* board, currentPlayer and gameOver are what they were before the call.    *)
ValidBefore ==
    /\ ~Pre.gameOver
    /\ lastCall.pitIndex \in OwnPits(Pre.currentPlayer)
    /\ Pre.board[lastCall.pitIndex] > 0

ThrowsExactlyWhenInvalid ==
    lastCall.op = "applyMove" =>
        /\ lastResult.kind = "error" <=> ~ValidBefore
        /\ lastResult.kind = "error" =>
               /\ board = Pre.board
               /\ currentPlayer = Pre.currentPlayer
               /\ gameOver = Pre.gameOver

ThrowsOnEmptyOwnPitWitness ==
    /\ Threw
    /\ moves >= 1
    /\ ~Pre.gameOver
    /\ lastCall.pitIndex \in OwnPits(Pre.currentPlayer)
    /\ Pre.board[lastCall.pitIndex] = 0
    /\ board = Pre.board

(* C4: sowing never drops a stone in the opponent's store.  For every       *)
(* successful applyMove the drop sequence does not contain the opponent's   *)
(* store index, whatever the stone count, and unless the move ended the     *)
(* game the opponent's store holds what it held before the move.            *)
NeverSowsOpponentStore ==
    Moved =>
        /\ \A j \in 1 .. Len(Summary.sequence) :
               Summary.sequence[j] # OppStore(Mover)
        /\ ~gameOver => board[OppStore(Mover)] = Pre.board[OppStore(Mover)]

NeverSowsOpponentStoreWitness ==
    /\ Moved
    /\ Mover = 1
    /\ Summary.stonesPicked >= 27
    /\ Len(Summary.sequence) = Summary.stonesPicked
    /\ ~gameOver
    /\ board[6] = Pre.board[6]

(* C5: turn transition.  After every successful applyMove the current      *)
(* player is the other side if and only if the last stone did not land in   *)
(* the mover's own store and the game did not end; otherwise it is the      *)
(* mover.                                                                   *)
TurnTransition ==
    Moved =>
        /\ currentPlayer = 1 - Mover <=> (Landing # OwnStore(Mover) /\ ~gameOver)
        /\ (Landing = OwnStore(Mover) \/ gameOver) => currentPlayer = Mover

TurnTransitionWitness ==
    /\ Moved
    /\ Mover = 1
    /\ Landing = 13
    /\ ~gameOver
    /\ currentPlayer = 1

(* C6: capture effect.  When the last stone lands in a pit of the mover     *)
(* that then holds exactly 1 stone and the opposite pit holds k > 0, the    *)
(* capture record is {pit, opposite, store, captured: k + 1}, the landing   *)
(* pit and the opposite pit end at 0, and the capture adds exactly k + 1 to *)
(* the mover's store (on top of what sowing put there and of what a         *)
(* game-ending sweep adds), for either player.                              *)
CaptureEffect ==
    (Moved /\ CaptureDue) =>
        LET k == Sown[12 - Landing]
            store == OwnStore(Mover)
            swept == IF SideEmptied(AfterCapture)
                     THEN PitsTotal(AfterCapture, Mover) ELSE 0
        IN  /\ Summary.capture = Some([pit |-> Landing,
                                       opposite |-> 12 - Landing,
                                       store |-> store,
                                       captured |-> k + 1])
            /\ board[Landing] = 0
            /\ board[12 - Landing] = 0
            /\ board[store] = Sown[store] + (k + 1) + swept

CaptureEffectWitness ==
    /\ Moved
    /\ CaptureDue
    /\ Mover = 1
    /\ Sown[12 - Landing] >= 2
    /\ board[13] = Pre.board[13] + Sown[12 - Landing] + 1

GameEndAndSweep ==
    Moved =>
        /\ gameOver <=> SideEmptied(AfterCapture)
        /\ gameOver =>
               /\ board[6] = AfterCapture[6] + PitsTotal(AfterCapture, 0)
               /\ board[13] = AfterCapture[13] + PitsTotal(AfterCapture, 1)
               /\ AllPitsEmpty(board)

GameEndAndSweepWitness ==
    /\ Moved
    /\ gameOver
    /\ Mover = 0
    /\ PitsTotal(AfterCapture, 1) > 0
    /\ board[13] = AfterCapture[13] + PitsTotal(AfterCapture, 1)

(* C9: termination overrides turn retention.  A move whose last stone lands *)
(* in the mover's own store and which leaves a side empty ends the game     *)
(* with the sweep performed, and its summary still reports extraTurn =      *)
(* landedInStore = true; in every summary extraTurn equals landedInStore,   *)
(* which says whether the last stone landed in the mover's own store.       *)
TerminationOverridesExtraTurn ==
    Moved =>
        /\ Summary.extraTurn = Summary.landedInStore
        /\ Summary.landedInStore <=> Landing = OwnStore(Mover)
        /\ (Landing = OwnStore(Mover) /\ SideEmptied(Sown)) =>
               /\ gameOver
               /\ Summary.gameOver
               /\ IsSome(Summary.sweep)
               /\ AllPitsEmpty(board)
               /\ Summary.extraTurn
               /\ Summary.landedInStore

TerminationOverridesExtraTurnWitness ==
    /\ Moved
    /\ Mover = 1
    /\ Landing = 13
    /\ SideIsEmpty(Sown, 1)
    /\ ~SideIsEmpty(Sown, 0)
    /\ gameOver
    /\ Summary.extraTurn

(* C10: snapshot isolation.  Two arrays handed out by getBoard (or taken    *)
(* from a summary) with no move in between and not written to are equal by  *)
(* value and equal to the engine's board; a write to an array the caller    *)
(* holds changes neither the engine's board, and so no later getBoard       *)
(* result, nor the other array the caller holds.                            *)
SnapshotIsolation ==
    /\ \A j \in DOMAIN held, k \in DOMAIN held :
           (~held[j].touched /\ ~held[k].touched /\ held[j].at = held[k].at)
               => Deref(held[j].ref) = Deref(held[k].ref)
    /\ \A k \in DOMAIN held :
           (~held[k].touched /\ held[k].at = moves) => Deref(held[k].ref) = board
    /\ lastCall.op = "write" =>
           /\ board = Pre.board
           /\ Deref(getBoard(board)) = Pre.board
           /\ \A j \in DOMAIN held \ {lastCall.index} :
                  Deref(held[j].ref) = lastCall.preHeld[j]

SnapshotIsolationWitness ==
    /\ lastCall.op = "write"
    /\ moves >= 1
    /\ Len(held) = 2
    /\ held[lastCall.index].touched
    /\ Deref(held[lastCall.index].ref) # board
    /\ \E j \in DOMAIN held : ~held[j].touched /\ Deref(held[j].ref) = board

----------------------------------------------------------------------------
(* C11: clone() yields an engine with the receiver's board, currentPlayer  *)
(* and gameOver; after that, applyMove and reset on either engine leave    *)
(* the other's board, currentPlayer and gameOver as they were; and         *)
(* simulateMove leaves the receiver's three fields as they were, whether   *)
(* it returns or throws.                                                   *)

CopyOps == {"copy.applyMove", "copy.reset"}

CloneIndependence ==
    /\ lastCall.op = "clone" =>
           /\ Deref(Get(sim).board) = board
           /\ Get(sim).currentPlayer = currentPlayer
           /\ Get(sim).gameOver = gameOver
    /\ lastCall.op \in CopyOps \cup {"clone", "simulateMove"} =>
           PreState = lastCall.pre
    /\ IsSome(sim) => Deref(Get(sim).board) = Get(sim).seen

CloneIndependenceWitness ==
    /\ lastCall.op = "copy.applyMove"
    /\ lastResult.kind = "ok"
    /\ moves >= 1
    /\ Get(sim).moves >= 1
    /\ Deref(Get(sim).board) # board
    /\ Get(sim).currentPlayer # currentPlayer

----------------------------------------------------------------------------
(* C12: getValidMoves(player) is the ascending list of exactly the slots   *)
(* of the player's pit range that hold at least one stone, and the empty   *)
(* list when the game is over; a pit is in getValidMoves(player) exactly   *)
(* when isValidMove(pit, player) is true; on the default initial board it  *)
(* is [0..5] for player 0 and [7..12] for player 1.                        *)

Range(seq) == {seq[i] : i \in DOMAIN seq}

ValidMovesListed ==
    \A p \in Players :
        LET list == getValidMoves(board, gameOver, p) IN
        /\ \A i \in 1 .. Len(list) - 1 : list[i] < list[i + 1]
        /\ Range(list) = IF gameOver THEN {}
                         ELSE {i \in OwnPits(p) : board[i] >= 1}
        /\ \A pit \in PitArgs :
               pit \in Range(list) <=> isValidMove(board, gameOver, pit, p)
        /\ (board = INITIAL_BOARD /\ ~gameOver) =>
               list = IF p = 0 THEN <<0, 1, 2, 3, 4, 5>>
                      ELSE <<7, 8, 9, 10, 11, 12>>

ValidMovesListedWitness ==
    /\ Moved
    /\ ~gameOver
    /\ \A p \in Players :
           Len(getValidMoves(board, gameOver, p)) \in 2 .. 5

----------------------------------------------------------------------------
(* What the properties of the front end's calls are stated over *)

Chose == lastCall.op \in {"chooseBestAIMove", "showHint"} /\ lastResult.kind # "refused"

\* the pits getValidMoves listed for the player the choice was made for
Candidates ==
    Range(getValidMoves(lastCall.pre.board, lastCall.pre.gameOver, lastCall.player))

\* the score evaluateMove gives a pit, for the player and on the engine of
\* the last call
ScoreOf(pit) ==
    evaluateMove(lastCall.pre.board, lastCall.pre.currentPlayer,
                 lastCall.pre.gameOver, lastCall.player, pit).score

----------------------------------------------------------------------------
(* C13: chooseBestAIMove and the hint selection never return a pit for     *)
(* which isValidMove(pit, player) is false, and they return null (no       *)
(* suggestion) exactly when getValidMoves(player) is empty.                *)

ChoiceIsValid ==
    Chose =>
        /\ lastResult.kind = "ok" =>
               isValidMove(lastCall.pre.board, lastCall.pre.gameOver,
                           lastResult.pit, lastCall.player)
        /\ lastResult.kind = "null" <=> Candidates = {}

ChoiceIsValidWitness ==
    /\ lastCall.op = "chooseBestAIMove"
    /\ lastResult.kind = "ok"
    /\ moves >= 1
    /\ Cardinality(Candidates) >= 2

----------------------------------------------------------------------------
(* C14: the pit chooseBestAIMove and the hint selection return is a valid  *)
(* pit whose evaluateMove score is maximal among the player's valid pits,  *)
(* and the lowest such pit when several share the maximal score.           *)

ChoiceIsBest ==
    (Chose /\ lastResult.kind = "ok") =>
        /\ lastResult.pit \in Candidates
        /\ \A best \in {ScoreOf(lastResult.pit)}, pit \in Candidates :
               \A score \in {ScoreOf(pit)} :
                   /\ score <= best
                   /\ score = best => lastResult.pit <= pit

ChoiceIsBestWitness ==
    /\ lastCall.op = "showHint"
    /\ lastResult.kind = "ok"
    /\ \E tied \in Candidates :
           tied > lastResult.pit /\ ScoreOf(tied) = ScoreOf(lastResult.pit)
    /\ \E worse \in Candidates :
           worse < lastResult.pit /\ ScoreOf(worse) < ScoreOf(lastResult.pit)

----------------------------------------------------------------------------
(* C15: evaluateMove, chooseBestAIMove and showHint leave the live         *)
(* engine's board, currentPlayer and gameOver exactly as they were before  *)
(* the call.                                                               *)

EvaluatorLeavesEngine ==
    lastCall.op \in {"evaluateMove", "chooseBestAIMove", "showHint"} =>
        PreState = lastCall.pre

\* an evaluation that went through the opponent's replies
EvaluatorLeavesEngineWitness ==
    /\ lastCall.op = "evaluateMove"
    /\ lastResult.kind = "ok"
    /\ moves >= 1
    /\ LET r == applyMove(lastCall.pre.board, lastCall.pre.currentPlayer,
                          lastCall.pre.gameOver, lastCall.pitIndex)
       IN  /\ ~r.gameOver
           /\ ~r.summary.extraTurn
           /\ Len(getValidMoves(r.board, r.gameOver, 1 - lastCall.player)) >= 2

----------------------------------------------------------------------------
(* C16: evaluateMove(player, pit) returns a score, and does not throw, on  *)
(* every engine whose game is not over, for its current player and every   *)
(* valid pit of that player, a pit that earns an extra turn included.      *)

EvaluatedOwnValidMove ==
    /\ lastCall.op \in {"evaluateMove", "evaluateMoveSecond"}
    /\ ~lastCall.pre.gameOver
    /\ lastCall.player = lastCall.pre.currentPlayer
    /\ isValidMove(lastCall.pre.board, lastCall.pre.gameOver,
                   lastCall.pitIndex, lastCall.player)

EvaluateMoveReturns ==
    EvaluatedOwnValidMove => lastResult.kind = "ok"

\* the same, of the first definition alone
FirstEvaluateMoveReturns ==
    (EvaluatedOwnValidMove /\ lastCall.op = "evaluateMove") => lastResult.kind = "ok"

----------------------------------------------------------------------------
(* C17: reset() without arguments, after any successful moves, gives the   *)
(* engine the board it was last given (at construction, by value: the      *)
(* moves played have not changed it) and the starting player it was last   *)
(* given, and clears gameOver.                                             *)

ResetRestores ==
    (lastCall.op = "reset" /\ lastCall.boardArg = None /\ lastCall.playerArg = None) =>
        /\ board = startedWith.board
        /\ currentPlayer = startedWith.player
        /\ gameOver = FALSE

ResetRestoresWitness ==
    /\ lastCall.op = "reset"
    /\ lastCall.boardArg = None
    /\ lastCall.playerArg = None
    /\ lastCall.played >= 2
    /\ startedWith.player = 1
    /\ board = SkipTestBoard

----------------------------------------------------------------------------
(* C19: the capture rule as the README words it: whenever the last stone   *)
(* of a move lands in an empty pit on the mover's own side, that stone and *)
(* all stones of the opposite pit are captured into the mover's store.     *)

ReadmeCaptureRule ==
    (Moved /\ LandedAlone) =>
        /\ board[Landing] = 0
        /\ board[12 - Landing] = 0
        /\ board[OwnStore(Mover)] >=
               Sown[OwnStore(Mover)] + Sown[12 - Landing] + 1

----------------------------------------------------------------------------
(* C20: the summary of a successful applyMove agrees with the engine: its  *)
(* board, currentPlayer, gameOver and scores (human: board[6], ai:         *)
(* board[13]) are the engine's after the move, stonesPicked is what the    *)
(* played pit held before the move, and sweep is present exactly when the  *)
(* move ended the game.                                                    *)

SummaryAgrees ==
    Moved =>
        /\ Deref(Summary.board) = board
        /\ Summary.currentPlayer = currentPlayer
        /\ Summary.gameOver = gameOver
        /\ Summary.scores = [human |-> board[6], ai |-> board[13]]
        /\ Summary.stonesPicked = Pre.board[lastCall.pitIndex]
        /\ IsSome(Summary.sweep) <=> (gameOver /\ ~Pre.gameOver)

SummaryAgreesWitness ==
    /\ Moved
    /\ IsSome(Summary.sweep)
    /\ IsSome(Summary.capture)
    /\ Summary.scores.human # Summary.scores.ai
    /\ Summary.scores.human > 0
    /\ Summary.scores.ai > 0

----------------------------------------------------------------------------
(* C21, as claimed: whenever applyMove captures, the landing pit held 0    *)
(* stones on the board before the move began.                              *)

CaptureOnlyIntoEmptyBefore ==
    (Moved /\ IsSome(Summary.capture)) => Pre.board[Landing] = 0

(* C21, amended: whenever applyMove captures, the landing pit received     *)
(* exactly one stone in the move and either held 0 stones before the move  *)
(* or is the played pit itself, emptied by the pick-up and reached again   *)
(* by the last stone of a 13-stone sowing.                                 *)

CaptureOnlyIntoEmptied ==
    (Moved /\ IsSome(Summary.capture)) =>
        /\ Count(Landing, Summary.sequence) = 1
        /\ \/ Landing # lastCall.pitIndex /\ Pre.board[Landing] = 0
           \/ Landing = lastCall.pitIndex /\ Summary.stonesPicked = 13

CaptureOnlyIntoEmptiedWitness ==
    /\ Moved
    /\ IsSome(Summary.capture)
    /\ Landing = lastCall.pitIndex
    /\ Pre.board[Landing] = 13

----------------------------------------------------------------------------
(* C22: a successful applyMove(pit) empties the pit and drops its stones   *)
(* one by one: sequence has stonesPicked entries, starts at the slot after *)
(* pit, continues slot by slot modulo 14 with the opponent's store passed  *)
(* over, each slot gains one stone per time it is named, and lastPosition  *)
(* is the last entry.                                                      *)

\* the slot sown after slot x by player p
SlotAfter(x, p) ==
    IF (x + 1) % 14 = OppStore(p) THEN (x + 2) % 14 ELSE (x + 1) % 14

SowingShape ==
    Moved =>
        LET seq == Summary.sequence IN
        /\ Len(seq) = Summary.stonesPicked
        /\ Len(seq) = Pre.board[lastCall.pitIndex]
        /\ seq[1] = (lastCall.pitIndex + 1) % 14
        /\ \A j \in 2 .. Len(seq) : seq[j] = SlotAfter(seq[j - 1], Mover)
        /\ Landing = seq[Len(seq)]
        /\ ~IsSome(Summary.sweep) => board = AfterCapture
        /\ (~IsSome(Summary.sweep) /\ ~IsSome(Summary.capture)) => board = Sown

SowingShapeWitness ==
    /\ Moved
    /\ Summary.stonesPicked >= 10
    /\ ~IsSome(Summary.sweep)
    /\ ~IsSome(Summary.capture)
    /\ \E j \in 2 .. Len(Summary.sequence) :
           Summary.sequence[j - 1] = 12 /\ Summary.sequence[j] = 0

----------------------------------------------------------------------------
(* C23: a sowing of at most 13 stones never drops two stones in the same   *)
(* slot: the entries of its sequence are pairwise distinct.                *)

SinglePassDistinct ==
    (Moved /\ Summary.stonesPicked <= 13) =>
        \A i, j \in 1 .. Len(Summary.sequence) :
            i # j => Summary.sequence[i] # Summary.sequence[j]

SinglePassDistinctWitness ==
    /\ Moved
    /\ Summary.stonesPicked = 13
    /\ Landing = lastCall.pitIndex

----------------------------------------------------------------------------
(* C24: only applyMove can fail.  getBoard, getScores, getValidMoves,      *)
(* isValidMove, clone and reset complete without raising on every engine   *)
(* and for every pit and player argument, a player id that is neither 0    *)
(* nor 1 included.                                                         *)

Accessors == {"getScores", "getValidMoves", "isValidMove", "clone", "reset"}

OnlyApplyMoveFails ==
    /\ lastCall.op \in Accessors => lastResult.kind # "error"
    /\ lastCall.op = "getBoard" => held # <<>>

\* what does hold: the one accessor call that throws is getValidMoves for a
\* player id that is no player, on an engine whose game is not over
OnlyUnknownPlayerFails ==
    /\ lastCall.op \in Accessors =>
           (lastResult.kind = "error" <=>
               /\ lastCall.op = "getValidMoves"
               /\ ~gameOver
               /\ PlayerGiven(lastCall.player) \notin Players)
    /\ lastCall.op = "getBoard" => held # <<>>
    /\ (lastCall.op = "isValidMove" /\ PlayerGiven(lastCall.player) \notin Players)
           => lastResult.value = FALSE

----------------------------------------------------------------------------
(* C25: terminal moves are scored without lookahead.  When the simulated   *)
(* move ends the game, evaluateMove returns (own - opp) * 6, plus 40 if    *)
(* the move earned an extra turn, plus 15 + 3 * captured if it captured,   *)
(* plus (own - opp) * 20, own and opp being the stores after the sweep,    *)
(* and it simulates no opponent reply.  Scores are counted in fifths.      *)

Evaluated ==
    /\ lastCall.op \in {"evaluateMove", "evaluateMoveSecond"}
    /\ lastResult.kind = "ok"

\* the move evaluateMove simulates, played on the engine it was called on
Simulated ==
    applyMove(lastCall.pre.board, lastCall.pre.currentPlayer,
              lastCall.pre.gameOver, lastCall.pitIndex).summary

\* the store of player p on board b
StoreOf(b, p) == IF p = 0 THEN b[6] ELSE b[13]

TerminalScore ==
    Evaluated =>
        \A r \in {Simulated} :
            r.gameOver =>
                LET own == StoreOf(r.board.arr, lastCall.player)
                    opp == StoreOf(r.board.arr, 1 - lastCall.player)
                IN  /\ lastResult.score =
                           5 * ((own - opp) * 6
                                + (IF r.extraTurn THEN 40 ELSE 0)
                                + (IF IsSome(r.capture)
                                   THEN 15 + 3 * Get(r.capture).captured ELSE 0)
                                + (own - opp) * 20)
                    /\ lastResult.replies = 0

TerminalScoreWitness ==
    /\ Evaluated
    /\ Simulated.gameOver
    /\ IsSome(Simulated.capture)
    /\ IsSome(Simulated.sweep)
    /\ Get(Simulated.sweep).humanRemaining + Get(Simulated.sweep).aiRemaining > 0
    /\ lastResult.score # 0

\* a terminal move that also earned an extra turn is scored with the 40
TerminalScoreExtraTurnWitness ==
    /\ Evaluated
    /\ Simulated.gameOver
    /\ Simulated.extraTurn

----------------------------------------------------------------------------
(* C26: opponent-reply lookahead.  For a simulated move that neither ends  *)
(* the game nor earns an extra turn, evaluateMove returns (own - opp) * 6  *)
(* plus the capture bonus minus 0.6 * M, M being the maximum over the      *)
(* opponent's valid replies on the simulated position, played with the     *)
(* opponent as mover, of (opp - own) * 6, plus 35 if the reply earns an    *)
(* extra turn, plus 15 + 2 * captured if it captures, plus (opp - own) *   *)
(* 15 if it ends the game.  Scores are counted in fifths: 5 * base - 3 * M *)

\* the pits the opponent of the evaluating player can play on board b
RepliesOn(b) ==
    {q \in Slots : /\ IF lastCall.player = 0 THEN q \in 7 .. 12 ELSE q \in 0 .. 5
                   /\ b[q] > 0}

\* the points of reply q on board b, for the opponent of the evaluating player
ReplyPoints(b, q) ==
    LET rr == applyMove(b, 1 - lastCall.player, FALSE, q).summary
        own == StoreOf(rr.board.arr, lastCall.player)
        opp == StoreOf(rr.board.arr, 1 - lastCall.player)
    IN  (opp - own) * 6
        + (IF rr.extraTurn THEN 35 ELSE 0)
        + (IF IsSome(rr.capture) THEN 15 + 2 * Get(rr.capture).captured ELSE 0)
        + (IF rr.gameOver THEN (opp - own) * 15 ELSE 0)

\* the points of the simulated move r before the lookahead
BasePoints(r) ==
    (StoreOf(r.board.arr, lastCall.player)
        - StoreOf(r.board.arr, 1 - lastCall.player)) * 6
    + (IF IsSome(r.capture) THEN 15 + 3 * Get(r.capture).captured ELSE 0)

LookaheadScore ==
    Evaluated =>
        \A r \in {Simulated} :
            (~r.gameOver /\ ~r.extraTurn) =>
                /\ RepliesOn(r.board.arr) # {}
                /\ lastResult.replies = Cardinality(RepliesOn(r.board.arr))
                /\ \E q \in RepliesOn(r.board.arr) :
                       \A m \in {ReplyPoints(r.board.arr, q)} :
                           /\ lastResult.score = 5 * BasePoints(r) - 3 * m
                           /\ \A q2 \in RepliesOn(r.board.arr) :
                                  ReplyPoints(r.board.arr, q2) <= m

LookaheadScoreWitness ==
    /\ Evaluated
    /\ ~Simulated.gameOver
    /\ ~Simulated.extraTurn
    /\ IsSome(Simulated.capture)
    /\ \E q, q2 \in RepliesOn(Simulated.board.arr) :
           /\ ReplyPoints(Simulated.board.arr, q) > ReplyPoints(Simulated.board.arr, q2)
           /\ lastResult.score =
                  5 * BasePoints(Simulated) - 3 * ReplyPoints(Simulated.board.arr, q)

----------------------------------------------------------------------------
(* C27: AI turn flow.  With no newGame, and with animation delays and AI   *)
(* timers eventually firing, after every human move that hands the turn to *)
(* the AI, the AI applies moves chosen by chooseBestAIMove, again while it *)
(* earns extra turns, until the game is over or the turn is the human's    *)
(* and the input is unlocked.                                              *)

\* the human's move has just been applied and the turn is the AI's
HandedToAI ==
    /\ Moved
    /\ ~lastCall.initiatedByAI
    /\ currentPlayer = AI_PLAYER
    /\ ~gameOver

BackToHuman ==
    \/ gameOver
    \/ currentPlayer = HUMAN_PLAYER /\ ~ui.inputLocked

\* every move the AI applies is the pit chooseBestAIMove returns, on the
\* AI's turn
AIMovesChosen ==
    (Moved /\ lastCall.initiatedByAI) =>
        /\ Pre.currentPlayer = AI_PLAYER
        /\ \A c \in {chooseBestAIMove(Pre.board, Pre.currentPlayer, Pre.gameOver)} :
               c.kind = "ok" /\ c.pit = lastCall.pitIndex

\* while the turn is the AI's, the input stays locked and a step of the AI
\* is pending: an animation or a timer
AIStepPending ==
    (currentPlayer = AI_PLAYER /\ ~gameOver /\ moves > 0) =>
        /\ ui.inputLocked
        /\ IsSome(ui.pending) \/ ui.timers > 0

AITurnFlow ==
    /\ [](AIMovesChosen /\ AIStepPending)
    /\ HandedToAI ~> BackToHuman

AITurnFlowWitness ==
    /\ ui.aiMoves >= 2
    /\ currentPlayer = HUMAN_PLAYER
    /\ ~ui.inputLocked
    /\ ~gameOver
    /\ Moved /\ lastCall.initiatedByAI

----------------------------------------------------------------------------
(* C28: no stuck player.  After every successful applyMove that leaves     *)
(* gameOver false both players have a valid move; so in every state        *)
(* reached from a board with stones on both sides, gameOver = false        *)
(* implies getValidMoves(currentPlayer) is non-empty, evaluateMove never   *)
(* takes its "opponent has no reply" (+10) branch, and chooseBestAIMove    *)
(* never returns null on the AI's turn.                                    *)

HasStones(b, p) == \E i \in OwnPits(p) : b[i] > 0

StartedOnBothSides ==
    HasStones(startedWith.board, 0) /\ HasStones(startedWith.board, 1)

NoStuckPlayer ==
    /\ (Moved /\ ~gameOver) =>
           /\ HasStones(board, 0) /\ HasStones(board, 1)
           /\ \A p \in Players : Len(getValidMoves(board, gameOver, p)) > 0
    /\ (StartedOnBothSides /\ ~gameOver) =>
           Len(getValidMoves(board, gameOver, currentPlayer)) > 0
    /\ Evaluated => lastResult.branch # "noReply"
    /\ (/\ StartedOnBothSides
        /\ lastCall.op = "chooseBestAIMove"
        /\ ~lastCall.pre.gameOver
        /\ lastCall.pre.currentPlayer = AI_PLAYER) => lastResult.kind # "null"

NoStuckPlayerWitness ==
    /\ StartedOnBothSides
    /\ moves > 0
    /\ lastCall.op = "chooseBestAIMove"
    /\ lastCall.pre.currentPlayer = AI_PLAYER
    /\ ~gameOver
    /\ lastResult.kind = "ok"
    /\ PitsTotal(board, 0) = 1
    /\ PitsTotal(board, 1) = 1

----------------------------------------------------------------------------
(* C29: every game ends.  From any board there is no infinite sequence of  *)
(* successful applyMove calls, and under any choice of valid moves the     *)
(* engine reaches gameOver = true; the sowing loop of each applyMove       *)
(* terminates.                                                             *)

\* the stones in the twelve pits
InPits(b) == PitsTotal(b, 0) + PitsTotal(b, 1)

\* the way the stones in the pits still have to go: each stone counts the
\* slots between its pit and the store of the side it lies on
ToGo(b) ==
    6 * b[0] + 5 * b[1] + 4 * b[2] + 3 * b[3] + 2 * b[4] + b[5]
    + 6 * b[7] + 5 * b[8] + 4 * b[9] + 3 * b[10] + 2 * b[11] + b[12]

\* a move takes stones out of the pits, or leaves their number and moves
\* some of them nearer to their store: (InPits, ToGo) falls in the
\* lexicographic order, which is well-founded
Progress ==
    Moved =>
        \/ InPits(board) < InPits(Pre.board)
        \/ InPits(board) = InPits(Pre.board) /\ ToGo(board) < ToGo(Pre.board)

\* no move is possible: the game is over or the mover's side is empty
NoMoveLeft ==
    \A pit \in PitArgs : applyMove(board, currentPlayer, gameOver, pit).kind = "error"

\* as claimed: a game in which no move is left is over
EveryGameEndsFromAnyBoard ==
    /\ Progress
    /\ NoMoveLeft => gameOver

\* what holds: the same for games begun with stones on both sides, or in
\* which a move has been made
EveryGameEnds ==
    /\ Progress
    /\ Moved => Len(Summary.sequence) = Pre.board[lastCall.pitIndex]
    /\ gameOver => NoMoveLeft
    /\ (NoMoveLeft /\ (StartedOnBothSides \/ Moved)) => gameOver

EveryGameEndsWitness ==
    /\ StartedOnBothSides
    /\ moves >= 2
    /\ Moved
    /\ gameOver
    /\ NoMoveLeft
    /\ InPits(Pre.board) >= 2

\* a move that takes no stone out of the pits
ProgressWithinSideWitness ==
    /\ Moved
    /\ InPits(board) = InPits(Pre.board)
    /\ ToGo(board) < ToGo(Pre.board)

----------------------------------------------------------------------------
(* C30: stores only grow.  Across every successful applyMove, board[6] and *)
(* board[13] are at least what they were before the move, and the number   *)
(* of stones in the twelve pits does not increase.                         *)

StoresOnlyGrow ==
    Moved =>
        /\ board[6] >= Pre.board[6]
        /\ board[13] >= Pre.board[13]
        /\ InPits(board) <= InPits(Pre.board)
        /\ board[OppStore(Mover)] > Pre.board[OppStore(Mover)] => IsSome(Summary.sweep)

StoresOnlyGrowWitness ==
    /\ Moved
    /\ IsSome(Summary.capture)
    /\ board[6] > Pre.board[6]
    /\ board[13] > Pre.board[13]
    /\ InPits(board) < InPits(Pre.board)

----------------------------------------------------------------------------
(* C31: game over is final and fully swept.  In every state reached        *)
(* through applyMove, gameOver = true implies all 12 pits are 0 and        *)
(* board[6] + board[13] is the initial stone total; once gameOver is true  *)
(* it stays true and the board does not change: every applyMove fails and  *)
(* getValidMoves is empty for both players.                                *)

GameOverSwept ==
    gameOver =>
        /\ AllPitsEmpty(board)
        /\ board[6] + board[13] = Total(startedWith.board)
        /\ \A p \in Players : getValidMoves(board, gameOver, p) = <<>>
        /\ \A pit \in PitArgs :
               \A r \in {applyMove(board, currentPlayer, gameOver, pit)} :
                   r.kind = "error" /\ r.board = board /\ r.gameOver

GameOverIsFinal ==
    /\ []GameOverSwept
    /\ [][gameOver => (gameOver' /\ board' = board /\ lastResult'.kind = "error")]_vars

GameOverIsFinalWitness ==
    /\ Threw
    /\ Pre.gameOver
    /\ gameOver
    /\ board = Pre.board
    /\ board[6] > 0
    /\ board[13] > 0

----------------------------------------------------------------------------
(* C32: side symmetry of the rules.  Playing pit p as player 0 on board B  *)
(* and playing p + 7 as player 1 on B rotated by 7 slots (slot i to slot   *)
(* (i + 7) mod 14) give rotated results: the post-move boards are          *)
(* rotations of each other, currentPlayer is swapped, and gameOver, the    *)
(* captured count and extraTurn are equal.                                 *)

\* board b rotated by 7 slots: what was in slot i is in slot (i + 7) mod 14
Rotated(b) == [i \in Slots |-> b[(i + 7) % 14]]

\* the last move played from the other side of the rotated board
Mirrored ==
    applyMove(Rotated(Pre.board), 1 - Mover, FALSE, (lastCall.pitIndex + 7) % 14)

CapturedCount(capture) == IF IsSome(capture) THEN Get(capture).captured ELSE 0

SideSymmetry ==
    Moved =>
        \A m \in {Mirrored} :
            /\ m.kind = "ok"
            /\ m.board = Rotated(board)
            /\ m.currentPlayer = 1 - currentPlayer
            /\ m.gameOver = gameOver
            /\ IsSome(m.summary.capture) = IsSome(Summary.capture)
            /\ CapturedCount(m.summary.capture) = CapturedCount(Summary.capture)
            /\ m.summary.extraTurn = Summary.extraTurn

SideSymmetryWitness ==
    /\ Moved
    /\ Mover = 0
    /\ IsSome(Summary.capture)
    /\ gameOver
    /\ board[6] # board[13]
    /\ Mirrored.board[13] = board[6]
----------------------------------------------------------------------------
(* The front end under interleaved events                                  *)

\* the evaluateMove calls of the last chooseBestAIMove or showHint
Asked == {ui.asked[k] : k \in 1 .. Len(ui.asked)}

\* C33: every evaluateMove(player, pit) the front end makes, under any
\* interleaving of clicks, keys, new games, hints, delays and timers, finds
\* the live engine not over, player to move and pit a valid move of player,
\* so that simulateMove on the live engine returns
EvaluatesForMover ==
    \A c \in Asked :
        /\ ~c.gameOver
        /\ c.currentPlayer = c.player
        /\ isValidMove(c.board, c.gameOver, c.pitIndex, c.player)
        /\ simulateMove(c.board, c.currentPlayer, c.gameOver, c.pitIndex).kind = "ok"

\* the AI evaluated several moves and played one while another of its
\* timers, set before a new game, is still to fire
EvaluatesForMoverWitness ==
    /\ \E c \in Asked : c.player = AI_PLAYER /\ c.pitIndex \in 7 .. 12
    /\ lastCall.op = "applyMove" /\ lastCall.initiatedByAI
    /\ Len(ui.asked) > 1
    /\ ui.timers > 0

\* the human asked for a hint in the game after a new game
HintEvaluatedWitness ==
    /\ \E c \in Asked : c.player = HUMAN_PLAYER /\ c.pitIndex \in 0 .. 5
    /\ lastCall.op = "reset"

\* C34: applyMove is never called while the animation of a move runs, and
\* an applyMove started by the human finds the input unlocked, the human to
\* move, the game on and the pit a valid human move
OneMoveInFlight ==
    lastCall.op = "applyMove" =>
        /\ ~lastCall.animationInProgress
        /\ ~lastCall.initiatedByAI =>
               /\ ~lastCall.inputLocked
               /\ ~Pre.gameOver
               /\ Pre.currentPlayer = HUMAN_PLAYER
               /\ isValidMove(Pre.board, Pre.gameOver, lastCall.pitIndex, HUMAN_PLAYER)

\* a new game was started while a move was animating: the input is unlocked
\* and the human has a valid move, but the animation still runs
OneMoveInFlightWitness ==
    /\ lastCall.op = "reset"
    /\ ui.animationInProgress
    /\ ~ui.inputLocked
    /\ currentPlayer = HUMAN_PLAYER
    /\ getValidMoves(board, gameOver, HUMAN_PLAYER) # <<>>

\* C35: with no animation running and no AI move scheduled the input is
\* locked only in a game that is over, and the game-over modal is shown only
\* for an engine whose game is over
InputLockMatchesEngine ==
    /\ (~ui.animationInProgress /\ ui.timers = 0 /\ ui.inputLocked) => gameOver
    /\ ui.modal => gameOver

\* the last step of the legacy game was a makeMove run to its end
LegacyMoved == legacy.last.op = "makeMove"

\* applyMove on the state the legacy makeMove started from
EngineMove ==
    applyMove(legacy.last.pre.board, legacy.last.pre.currentPlayer,
              legacy.last.pre.gameOver, legacy.last.pitIndex)

\* C37: on every board and every pit with stones of the player to move, the
\* legacy makeMove run to its end leaves the board, the player to move and
\* gameOver that applyMove leaves on the same state
LegacyAgreesWithEngine ==
    LegacyMoved =>
        \A r \in {EngineMove} :
            /\ r.kind = "ok"
            /\ r.board = legacy.board
            /\ r.currentPlayer = legacy.currentPlayer
            /\ r.gameOver = legacy.gameOver

\* a capture that empties the mover's side and ends the game
LegacyAgreesWithEngineWitness ==
    /\ LegacyMoved
    /\ legacy.gameOver
    /\ IsSome(EngineMove.summary.capture)
    /\ legacy.board[6] > 0 /\ legacy.board[13] > 0

\* C38: the landing slot the loops of findBestAIMove and findBestHumanMove
\* compute for a move is the slot makeMove drops its last stone in
SimulatedLandingIsActual ==
    LegacyMoved => legacy.last.simulated = legacy.last.lastPosition

\* C36: at most one legacy makeMove waits on its animation, and a makeMove
\* started before the latest newGame changes neither the board nor the
\* player to move
OneLegacyMoveAtATime ==
    /\ Len(legacy.running) <= 1
    /\ ~(legacy.last.op = "resume" /\ legacy.last.stale /\ legacy.last.changed)

====
